---- MODULE Spec2Model ----
(***************************************************************************)
(* Birthday greeting service: the delivery tracker (message logs), the     *)
(* sender handler in its two versions, the daily aggregator in its two     *)
(* versions, the users API handler and the trigger service.                *)
(* Every await of a handler is one step, so invocations interleave at the  *)
(* points where the code yields.                                           *)
(***************************************************************************)
EXTENDS Integers, FiniteSets, Sequences, TLC

\* ---- bounds -------------------------------------------------------------
NumUsers == 2
NumSenders == 2
MaxInvocations == 2       \* sender invocations in a concurrent run
MaxSeqInvocations == 5    \* sender invocations in a sequential run
NumRuns == 2              \* daily aggregator invocations that may overlap
MaxRedrives == 1          \* resubmissions to the main queue that are followed
MaxPasses == 2            \* receipts of one dead-letter message in a retry cycle
MaxRecords == 3           \* handler invocations (or records) one process serves
MaxLen == 4               \* elements of an array given to chunkArray
MaxSize == 3              \* chunk sizes tried besides BATCH_SIZE

\* ---- program constants --------------------------------------------------
MAX_ATTEMPTS == 3
maxReceiveCount == 3
BATCH_SIZE == 200
MaxNumberOfMessages == 10

Users == 1..NumUsers
Senders == 1..NumSenders
Runs == 1..NumRuns

VARIABLES
  senderImpl,   \* which sender handler is deployed: "capped" or "uncapped"
  dailyImpl,    \* which daily aggregator is deployed: "tracked" or "simple"
  isLocal,      \* IS_OFFLINE / STAGE=local: triggers are rate(1 minute)
  schedulerImpl, \* which SchedulerService is deployed: "utc" or "naive"
  pollerImpl,   \* which queueing poller is deployed: "single" or "batch"
  users,        \* users table: user -> "none", "today", "other" or "deleted"
  schedules,    \* trigger service: users with a trigger named {userId}_{today}
  crons,        \* trigger service: the ScheduleExpression of each trigger
  fired,        \* trigger service: triggers that have fired
  logs,         \* message logs table: user -> record for key {userId}_{today}
  applied,      \* message logs table: status updates accepted per key
  spc,          \* sender invocation: position in the handler
  suser,        \* sender invocation: message.userId
  sweb,         \* sender invocation: outcome of its webhook call
  sret,         \* sender invocation: what the handler returned
  calls,        \* webhook endpoint: POSTs received per user
  okCalls,      \* webhook endpoint: POSTs answered 2xx per user
  invocations,  \* sender invocations started so far
  dpc,          \* daily aggregator run: position in the handler
  dtodo,        \* daily aggregator run: users of the query result not yet visited
  duser,        \* daily aggregator run: user of the current iteration
  dret,         \* daily aggregator run: how its last invocation ended
  dseen,        \* daily aggregator run: users whose try/catch block it has left
  dclean,       \* daily aggregator run: outcome of its last cleanup update
  derr,         \* daily aggregator run: the error held by its catch block
  apc,          \* users API request: position in the handler
  amethod,      \* users API request: httpMethod
  auser,        \* users API request: userId
  achanged,     \* users API request: the PUT changed the stored birthday
  aret,         \* users API request: status code returned
  lastGreetingSentAt, \* users table (Postgres): last_greeting_sent_at of each user
  ppc,          \* polling handler invocation: position in the handler
  ptodo,        \* polling handler invocation: usersToGreet not yet visited
  puser,        \* polling handler invocation: user of the current iteration
  pret,         \* polling handler invocation: how it ended
  now,          \* clock: the UTC instant, in minutes from the start of Calendar
  zone,         \* users table: location of each user
  bday,         \* users table: birthday of each user (a date of Calendar)
  qwhere,       \* SQS: message id -> "none", "main", "dlq" or "gone" (deleted)
  quser,        \* SQS: userId in the body of each message
  qrc,          \* SQS: ApproximateReceiveCount of each message
  qvis,         \* SQS: whether the message is visible to receivers
  qfrom,        \* SQS: the message whose body a resubmitted message copies, or 0
  qretry,       \* SQS: retryCount in the body of each message (absent reads 0)
  cpc,          \* queue consumer: position in processWebhook
  cmsg,         \* queue consumer: the record of the event
  cret,         \* queue consumer: "ok", or the error the last invocation threw
  rpc,          \* retry handler: position in the handler
  rbatch,       \* retry handler: receiveResponse.Messages
  rmsg,         \* retry handler: Messages[0]
  rret,         \* retry handler: what the last invocation returned
  epc,          \* queueing poller: position in the handler
  etodo,        \* queueing poller: usersToGreet not yet sent
  eret,         \* queueing poller: what the last invocation returned
  ebatches,     \* SQS: the record lists of the batch entries the queue accepted
  oldLogs,      \* message logs table: user -> record for key {userId}_{yesterday}
  wpc,          \* retryFailedWebhooks: position in the function
  wbatch,       \* retryFailedWebhooks: receiveResponse.Messages not yet visited
  wmsg,         \* retryFailedWebhooks: message of the current iteration
  wret,         \* retryFailedWebhooks: how the last cycle ended
  wtried,       \* retryFailedWebhooks: times each message was attempted this cycle
  instance,     \* DatabaseService.instance of a process: 0 (unset) or the object's id
  created,      \* DatabaseService objects the process has constructed so far
  poolEnds,     \* pool.end() calls made on the pool of each object
  lateQueries,  \* queries issued on a pool after its end() was called
  hpc,          \* handler of the process: position in the handler
  hdb,          \* handler of the process: the object getInstance() gave it
  huser,        \* handler of the process: userId of the record it handles
  hkind,        \* handler of the process: "scheduled" or "http" event
  hret,         \* handler of the process: how its last invocation ended
  hdone,        \* handler invocations (or records) the process has completed
  karray,       \* chunkArray: the argument array
  ksize,        \* chunkArray: the argument size
  kchunks,      \* chunkArray: the value returned
  kdone         \* chunkArray: whether the call has returned

envVars == <<senderImpl, dailyImpl, isLocal, schedulerImpl, pollerImpl>>
senderVars == <<spc, suser, sweb, sret, calls, okCalls, invocations>>
dailyVars == <<dpc, dtodo, duser, dret, dseen, dclean, derr>>
apiVars == <<apc, amethod, auser, achanged, aret>>

storeVars == <<logs, applied>>
pollVars == <<lastGreetingSentAt, ppc, ptodo, puser, pret>>
clockVars == <<now, zone, bday>>
sqsVars == <<qwhere, quser, qrc, qvis, qfrom, qretry>>
consumerVars == <<cpc, cmsg, cret>>
retryVars == <<rpc, rbatch, rmsg, rret>>
enqueueVars == <<epc, etodo, eret, ebatches>>
queueVars == <<sqsVars, consumerVars, retryVars, enqueueVars>>
pastVars == <<oldLogs>>
cycleVars == <<wpc, wbatch, wmsg, wret, wtried>>
poolVars == <<instance, created, poolEnds, lateQueries>>
processVars == <<poolVars, hpc, hdb, huser, hkind, hret, hdone>>
chunkVars == <<karray, ksize, kchunks, kdone>>
variantVars == <<pollVars, clockVars, queueVars, pastVars, cycleVars, processVars, chunkVars>>

coreVars == <<envVars, users, schedules, crons, fired, storeVars, dailyVars, apiVars,
              pastVars, processVars, chunkVars>>

schedulerVars == <<envVars, users, schedules, crons, fired, storeVars, dailyVars, apiVars,
                   pastVars, cycleVars, processVars, chunkVars>>

vars == <<envVars, users, schedules, crons, fired, storeVars, senderVars, dailyVars, apiVars,
          variantVars>>

\* ---- delivery tracker (DynamoDBService) ----------------------------------
NoLog == [status |-> "NONE", attempts |-> 0]

getMessageLog(ls, u) == ls[u]

\* the put without its ConditionExpression
createMessageLogOverwrite(ls, u, f) ==
  IF f THEN [err |-> "store error", logs |-> ls]
  ELSE [err |-> "none",
        logs |-> [ls EXCEPT ![u] = [status |-> "PENDING", attempts |-> 0]]]

\* f: the store rejects the request with a transport error
createMessageLog(ls, u, f) ==
  IF f THEN [err |-> "store error", logs |-> ls]
  ELSE IF ls[u] # NoLog
    THEN [err |-> "already exists", logs |-> ls]
    ELSE [err |-> "none",
          logs |-> [ls EXCEPT ![u] = [status |-> "PENDING", attempts |-> 0]]]

\* the update without its ConditionExpression: an upsert
updateMessageStatusUpsert(ls, u, st, f) ==
  IF f THEN [err |-> "store error", logs |-> ls]
  ELSE [err |-> "none",
        logs |-> [ls EXCEPT ![u] = [status |-> st,
                                    attempts |-> ls[u].attempts + 1]]]

\* the update with the increment applied twice
updateMessageStatusTwice(ls, u, st, f) ==
  IF f THEN [err |-> "store error", logs |-> ls]
  ELSE IF ls[u] = NoLog
    THEN [err |-> "not found", logs |-> ls]
    ELSE [err |-> "none",
          logs |-> [ls EXCEPT ![u] = [status |-> st,
                                      attempts |-> ls[u].attempts + 2]]]

updateMessageStatus(ls, u, st, f) ==
  IF f THEN [err |-> "store error", logs |-> ls]
  ELSE IF ls[u] = NoLog
    THEN [err |-> "not found", logs |-> ls]
    ELSE [err |-> "none",
          logs |-> [ls EXCEPT ![u] = [status |-> st,
                                      attempts |-> ls[u].attempts + 1]]]

getTodaysBirthdays(us) == {u \in Users : us[u] = "today"}

\* ---- trigger service (SchedulerService) -----------------------------------
\* f: the scheduler client rejects the request; a CreateSchedule for a name
\* that is registered and a DeleteSchedule for one that is not are rejected too
scheduleMessage(sch, u, f) ==
  IF f \/ u \in sch
    THEN [err |-> "Failed to create schedule", schedules |-> sch]
    ELSE [err |-> "none", schedules |-> sch \cup {u}]

deleteSchedule(sch, u, f) ==
  IF f \/ u \notin sch
    THEN [err |-> "Failed to delete schedule", schedules |-> sch]
    ELSE [err |-> "none", schedules |-> sch \ {u}]

NoCron == [kind |-> "none", minute |-> 0, hour |-> 0, day |-> 0, month |-> 0, year |-> 0]

\* ---- webhook dispatcher ---------------------------------------------------
Responses == {"ok", "http_error", "net_error"}

\* does sendToHookbin return normally for this response of the endpoint
sendToHookbin(impl, resp) ==
  IF impl = "capped" THEN resp = "ok" ELSE resp # "net_error"

\* the check comparing against a status value that is never stored
alreadySentWrongCase(log) == log.status = "sent"

\* the already-processed check made before dispatch
alreadySent(log) == log.status = "SENT"

\* the check with > in place of >=
maxAttemptsExceededOffByOne(impl, log) ==
  impl = "capped" /\ log # NoLog /\ log.attempts > MAX_ATTEMPTS

\* the max-attempts check made before dispatch
maxAttemptsExceeded(impl, log) ==
  impl = "capped" /\ log # NoLog /\ log.attempts >= MAX_ATTEMPTS

\* after a recorded failure: does the handler rethrow (true) or return 500
rethrowAfterFailure(impl, attempts) ==
  impl = "uncapped" \/ attempts < MAX_ATTEMPTS

InitScheduler ==
  /\ fired = {}
  /\ schedules = {}
  /\ crons = [u \in Users |-> NoCron]
  /\ logs = [u \in Users |-> NoLog]
  /\ applied = [u \in Users |-> 0]
  /\ spc = [p \in Senders |-> "idle"]
  /\ suser = [p \in Senders |-> 1]
  /\ sweb = [p \in Senders |-> "none"]
  /\ sret = [p \in Senders |-> "none"]
  /\ calls = [u \in Users |-> 0]
  /\ okCalls = [u \in Users |-> 0]
  /\ invocations = 0
  /\ dpc = [r \in Runs |-> "idle"]
  /\ dtodo = [r \in Runs |-> {}]
  /\ duser = [r \in Runs |-> 1]
  /\ dret = [r \in Runs |-> "none"]
  /\ dseen = [r \in Runs |-> {}]
  /\ dclean = [r \in Runs |-> "none"]
  /\ derr = [r \in Runs |-> "none"]
  /\ apc = "idle"
  /\ amethod = "none"
  /\ auser = 1
  /\ achanged = FALSE
  /\ aret = 0

\* last_greeting_sent_at: NULL, or the instant NOW() of the UPDATE that set it
NeverSent == [sent |-> FALSE, at |-> 0]

InitPolling ==
  /\ lastGreetingSentAt = [u \in Users |-> NeverSent]
  /\ ppc = [r \in Runs |-> "idle"]
  /\ ptodo = [r \in Runs |-> {}]
  /\ puser = [r \in Runs |-> 1]
  /\ pret = [r \in Runs |-> "none"]

\* ---- time -----------------------------------------------------------------
\* The civil days the model covers; an instant is a number of minutes from
\* 00:00 UTC of the first of them.
Calendar ==
  << [year |-> 2023, month |-> 12, day |-> 30],
     [year |-> 2023, month |-> 12, day |-> 31],
     [year |-> 2024, month |-> 1, day |-> 1],
     [year |-> 2024, month |-> 1, day |-> 2] >>

Zones == {"America/New_York", "Asia/Kathmandu", "Asia/Tokyo", "Pacific/Auckland"}

\* minutes east of UTC on the days of Calendar
UtcOffset(z) ==
  CASE z = "America/New_York" -> 0 - 5 * 60
    [] z = "Asia/Kathmandu" -> 5 * 60 + 45
    [] z = "Asia/Tokyo" -> 9 * 60
    [] z = "Pacific/Auckland" -> 13 * 60

\* the fields EXTRACT reads from an instant taken as it is (the UTC fields)
fieldsOf(t) ==
  [date |-> Calendar[(t \div (24 * 60)) + 1],
   hour |-> (t % (24 * 60)) \div 60,
   minute |-> t % 60]

\* NOW() AT TIME ZONE location: the civil time of instant t in zone z
atTimeZone(t, z) == fieldsOf(t + UtcOffset(z))

\* the time conditions of the due-now query, read from the UTC fields
dueNowUtc(b, z, t) ==
  LET l == fieldsOf(t) IN
    /\ l.hour = 9
    /\ l.minute \in 0..14
    /\ b.month = l.date.month
    /\ b.day = l.date.day

\* the time conditions of the due-now query for a row with birthday b, zone z
dueNow(b, z, t) ==
  LET l == atTimeZone(t, z) IN
    /\ l.hour = 9
    /\ l.minute \in 0..14
    /\ b.month = l.date.month
    /\ b.day = l.date.day

\* the instants at which the model reads the clock: the two middle days
Instants == (24 * 60)..(3 * 24 * 60 - 1)

\* the rows of the users table as the due-now query sees them at instant t
usersAt(t) ==
  [u \in Users |-> IF dueNow(bday[u], zone[u], t) THEN "today" ELSE "other"]

\* the birthdayChecker schedule read as every hour on the hour
PollInstantsHourly == {t \in Instants : t % 60 = 0}

\* the birthdayChecker schedule: cron(0,15,30,45 * * * ? *)
PollInstants == {t \in Instants : t % 60 \in {0, 15, 30, 45}}

\* DateTime.utc().toFormat('yyyy-MM-dd'): the day of Calendar the handlers
\* pass to scheduleMessage as date
today == (now \div (24 * 60)) + 1

\* the ScheduleExpression with the hour of the local time, unconverted
cronExpressionLocalHour(impl, local, z, i) ==
  [kind |-> "cron", minute |-> 0, hour |-> 9,
   day |-> Calendar[i].day, month |-> Calendar[i].month, year |-> Calendar[i].year]

\* the ScheduleExpression scheduleMessage builds for 09:00 on day i of
\* Calendar in zone z. "utc": DateTime.fromObject({year, month, day, hour: 9},
\* {zone}).toUTC() gives the fields, and a local deployment uses rate(1 minute).
\* "naive": the hour of DateTime.fromObject({hour: 9}, {zone}) with the day,
\* month and year of the date
cronExpression(impl, local, z, i) ==
  IF impl = "utc"
    THEN IF local
      THEN [kind |-> "rate", minute |-> 1, hour |-> 0, day |-> 0, month |-> 0, year |-> 0]
      ELSE LET l == fieldsOf((i - 1) * 24 * 60 + 9 * 60 - UtcOffset(z)) IN
             [kind |-> "cron", minute |-> l.minute, hour |-> l.hour,
              day |-> l.date.day, month |-> l.date.month, year |-> l.date.year]
    ELSE [kind |-> "cron", minute |-> 0, hour |-> 9,
          day |-> Calendar[i].day, month |-> Calendar[i].month, year |-> Calendar[i].year]

\* the expressions of the trigger service once the registered names are sch2:
\* a created trigger gets the expression scheduleMessage builds, a deleted one
\* loses it
expressionsAfter(sch2) ==
  [u \in Users |->
     IF u \notin sch2 THEN NoCron
     ELSE IF u \in schedules THEN crons[u]
     ELSE cronExpression(schedulerImpl, isLocal, zone[u], today)]

InitClock ==
  /\ now = 0
  /\ zone = [u \in Users |-> "Asia/Tokyo"]
  /\ bday = [u \in Users |-> Calendar[1]]

Msgs == 1..(NumUsers + MaxRedrives)

\* both queues empty, no handler running
InitQueue ==
  /\ qwhere = [m \in Msgs |-> "none"]
  /\ quser = [m \in Msgs |-> 1]
  /\ qrc = [m \in Msgs |-> 0]
  /\ qvis = [m \in Msgs |-> FALSE]
  /\ qfrom = [m \in Msgs |-> 0]
  /\ qretry = [m \in Msgs |-> 0]
  /\ cpc = "idle"
  /\ cmsg = 1
  /\ cret = "none"
  /\ rpc = "idle"
  /\ rbatch = {}
  /\ rmsg = 1
  /\ rret = "none"
  /\ epc = "idle"
  /\ etodo = {}
  /\ eret = "none"
  /\ ebatches = {}

\* no record under the key of an earlier day
InitPast == oldLogs = [u \in Users |-> NoLog]

\* retryFailedWebhooks is not running
InitCycle ==
  /\ wpc = "idle"
  /\ wbatch = {}
  /\ wmsg = 1
  /\ wret = "none"
  /\ wtried = [m \in Msgs |-> 0]

Instances == 1..MaxRecords

\* a process just started: no DatabaseService object yet, no handler running
InitProcess ==
  /\ instance = 0
  /\ created = 0
  /\ poolEnds = [i \in Instances |-> 0]
  /\ lateQueries = 0
  /\ hpc = "idle"
  /\ hdb = 0
  /\ huser = 1
  /\ hkind = "none"
  /\ hret = "none"
  /\ hdone = 0

\* no call of chunkArray is followed
InitChunk ==
  /\ karray = <<>>
  /\ ksize = 1
  /\ kchunks = <<>>
  /\ kdone = FALSE

InitState == InitScheduler /\ InitPolling /\ InitClock /\ InitQueue /\ InitPast /\ InitCycle /\ InitProcess /\ InitChunk

\* ---- sender handler -------------------------------------------------------
\* the 500 response built by the outer catch from the error it caught
ErrorResponse(err) ==
  CASE err = "already exists" -> "500_already_exists"
    [] err = "not found" -> "500_not_found"
    [] err = "store error" -> "500_store_error"
    [] err \in {"http_error", "net_error"} -> "500_webhook_failed"
    [] OTHER -> "500_error"

\* the error held by the inner catch: the webhook's, or that of the SENT
\* update when sendToHookbin had returned normally
caughtError(impl, resp) ==
  IF sendToHookbin(impl, resp) THEN "store error" ELSE resp

\* the handler returns r; the result stays readable until the next invocation
SenderFinish(p, r) ==
  /\ spc' = [spc EXCEPT ![p] = "idle"]
  /\ sret' = [sret EXCEPT ![p] = r]
  /\ sweb' = [sweb EXCEPT ![p] = "none"]

SenderStart(p, u, max) ==
  /\ spc[p] = "idle"
  /\ invocations < max
  /\ invocations' = invocations + 1
  /\ spc' = [spc EXCEPT ![p] = "get"]
  /\ suser' = [suser EXCEPT ![p] = u]
  /\ sret' = [sret EXCEPT ![p] = "none"]
  /\ UNCHANGED <<sweb, calls, okCalls>>

\* the handler is invoked with a well-formed message for user u
SenderInvoke(p, u) ==
  /\ SenderStart(p, u, MaxInvocations)
  /\ UNCHANGED <<variantVars, envVars, users, schedules, crons, fired, storeVars, dailyVars, apiVars>>

\* getMessageLog and the checks made on existingLog before the next await
SenderGetLog(p, f) ==
  /\ spc[p] = "get"
  /\ IF f THEN SenderFinish(p, ErrorResponse("store error"))
     ELSE LET log == getMessageLog(logs, suser[p]) IN
       IF alreadySent(log) THEN SenderFinish(p, "200_already_sent")
       ELSE IF maxAttemptsExceeded(senderImpl, log)
         THEN SenderFinish(p, "500_max_attempts")
       ELSE /\ spc' = [spc EXCEPT ![p] = IF log = NoLog THEN "create" ELSE "send"]
            /\ UNCHANGED <<sret, sweb>>
  /\ UNCHANGED <<suser, calls, okCalls, invocations>>
  /\ UNCHANGED <<variantVars, envVars, users, schedules, crons, fired, storeVars, dailyVars, apiVars>>

SenderCreateLog(p, f) ==
  /\ spc[p] = "create"
  /\ LET r == createMessageLog(logs, suser[p], f) IN
       /\ logs' = r.logs
       /\ IF r.err = "none"
            THEN spc' = [spc EXCEPT ![p] = "send"] /\ UNCHANGED <<sret, sweb>>
            ELSE SenderFinish(p, ErrorResponse(r.err))
  /\ UNCHANGED <<applied, suser, calls, okCalls, invocations>>
  /\ UNCHANGED <<variantVars, envVars, users, schedules, crons, fired, dailyVars, apiVars>>

\* the POST to the webhook endpoint and the endpoint's response
SenderSend(p, resp) ==
  /\ spc[p] = "send"
  /\ sweb' = [sweb EXCEPT ![p] = resp]
  /\ calls' = [calls EXCEPT ![suser[p]] = @ + 1]
  /\ okCalls' = [okCalls EXCEPT ![suser[p]] = IF resp = "ok" THEN @ + 1 ELSE @]
  /\ spc' = [spc EXCEPT ![p] = IF sendToHookbin(senderImpl, resp)
                                  THEN "updSent" ELSE "updFailed"]
  /\ UNCHANGED <<suser, sret, invocations>>
  /\ UNCHANGED <<variantVars, envVars, users, schedules, crons, fired, storeVars, dailyVars, apiVars>>

\* updateMessageStatus(SENT); its error is caught by the inner catch
SenderUpdateSent(p, f) ==
  /\ spc[p] = "updSent"
  /\ LET r == updateMessageStatus(logs, suser[p], "SENT", f) IN
       /\ logs' = r.logs
       /\ IF r.err = "none"
            THEN /\ applied' = [applied EXCEPT ![suser[p]] = @ + 1]
                 /\ SenderFinish(p, "200_sent")
            ELSE /\ spc' = [spc EXCEPT ![p] = "updFailed"]
                 /\ UNCHANGED <<sret, sweb, applied>>
  /\ UNCHANGED <<suser, calls, okCalls, invocations>>
  /\ UNCHANGED <<variantVars, envVars, users, schedules, crons, fired, dailyVars, apiVars>>

\* the inner catch: updateMessageStatus(FAILED), then rethrow the caught error
\* or return 500; what is thrown becomes a 500 response in the outer catch
SenderUpdateFailed(p, f) ==
  /\ spc[p] = "updFailed"
  /\ LET r == updateMessageStatus(logs, suser[p], "FAILED", f) IN
       /\ logs' = r.logs
       /\ IF r.err # "none"
            THEN SenderFinish(p, ErrorResponse(r.err)) /\ UNCHANGED applied
            ELSE /\ applied' = [applied EXCEPT ![suser[p]] = @ + 1]
                 /\ IF rethrowAfterFailure(senderImpl, r.logs[suser[p]].attempts)
                      THEN SenderFinish(p, ErrorResponse(caughtError(senderImpl, sweb[p])))
                      ELSE SenderFinish(p, "500_failed")
  /\ UNCHANGED <<suser, calls, okCalls, invocations>>
  /\ UNCHANGED <<variantVars, envVars, users, schedules, crons, fired, dailyVars, apiVars>>

\* ---- daily aggregator -----------------------------------------------------
DailyFinish(r, res) ==
  /\ dpc' = [dpc EXCEPT ![r] = "idle"]
  /\ dret' = [dret EXCEPT ![r] = res]
  /\ dtodo' = [dtodo EXCEPT ![r] = {}]

\* the handler is invoked; getTodaysBirthdays
DailyStart(r, f) ==
  /\ dpc[r] = "idle"
  /\ dseen' = [dseen EXCEPT ![r] = {}]
  /\ dclean' = [dclean EXCEPT ![r] = "none"]
  /\ IF f THEN DailyFinish(r, "thrown")
     ELSE /\ dtodo' = [dtodo EXCEPT ![r] = getTodaysBirthdays(users)]
          /\ dpc' = [dpc EXCEPT ![r] = "loop"]
          /\ dret' = [dret EXCEPT ![r] = "none"]
  /\ UNCHANGED <<duser, derr>>
  /\ UNCHANGED <<variantVars, envVars, users, schedules, crons, fired, storeVars, senderVars, apiVars>>

\* the iteration without the test of existingLog: every user goes on to
\* createMessageLog
DailyGetLogNoSkip(r, u, f) ==
  /\ dpc[r] = "loop" /\ dailyImpl = "tracked" /\ u \in dtodo[r]
  /\ IF f THEN DailyFinish(r, "thrown") /\ UNCHANGED duser
     ELSE /\ duser' = [duser EXCEPT ![r] = u]
          /\ dtodo' = [dtodo EXCEPT ![r] = @ \ {u}]
          /\ dpc' = [dpc EXCEPT ![r] = "create"]
          /\ UNCHANGED dret
  /\ UNCHANGED <<dseen, dclean, derr>>
  /\ UNCHANGED <<variantVars, envVars, users, schedules, crons, fired, storeVars, senderVars, apiVars>>

\* tracked: top of an iteration, getMessageLog; its error ends the run
DailyGetLog(r, u, f) ==
  /\ dpc[r] = "loop" /\ dailyImpl = "tracked" /\ u \in dtodo[r]
  /\ IF f THEN DailyFinish(r, "thrown") /\ UNCHANGED duser
     ELSE IF getMessageLog(logs, u) # NoLog
       THEN /\ dtodo' = [dtodo EXCEPT ![r] = @ \ {u}]
            /\ UNCHANGED <<dpc, duser, dret>>
       ELSE /\ duser' = [duser EXCEPT ![r] = u]
            /\ dtodo' = [dtodo EXCEPT ![r] = @ \ {u}]
            /\ dpc' = [dpc EXCEPT ![r] = "create"]
            /\ UNCHANGED dret
  /\ UNCHANGED <<dseen, dclean, derr>>
  /\ UNCHANGED <<variantVars, envVars, users, schedules, crons, fired, storeVars, senderVars, apiVars>>

\* tracked: createMessageLog; its error is caught by the catch block
DailyCreateLog(r, f) ==
  /\ dpc[r] = "create"
  /\ LET c == createMessageLog(logs, duser[r], f) IN
       /\ logs' = c.logs
       /\ dpc' = [dpc EXCEPT ![r] = IF c.err = "none" THEN "schedule" ELSE "cleanup"]
       /\ derr' = [derr EXCEPT ![r] = c.err]
  /\ UNCHANGED <<applied, dtodo, duser, dret, dseen, dclean>>
  /\ UNCHANGED <<variantVars, envVars, users, schedules, crons, fired, senderVars, apiVars>>

\* tracked: scheduleMessage; its error is caught by the catch block
DailySchedule(r, f) ==
  /\ dpc[r] = "schedule"
  /\ LET c == scheduleMessage(schedules, duser[r], f) IN
       /\ schedules' = c.schedules
       /\ crons' = expressionsAfter(c.schedules)
       /\ IF c.err = "none"
            THEN /\ dpc' = [dpc EXCEPT ![r] = "loop"]
                 /\ dseen' = [dseen EXCEPT ![r] = @ \cup {duser[r]}]
                 /\ UNCHANGED derr
            ELSE /\ dpc' = [dpc EXCEPT ![r] = "cleanup"]
                 /\ derr' = [derr EXCEPT ![r] = c.err]
                 /\ UNCHANGED dseen
  /\ UNCHANGED <<dtodo, duser, dret, dclean>>
  /\ UNCHANGED <<variantVars, envVars, users, fired, storeVars, senderVars, apiVars>>

\* tracked: the catch block, updateMessageStatus(FAILED), its error swallowed
DailyCleanup(r, f) ==
  /\ dpc[r] = "cleanup"
  /\ LET c == updateMessageStatus(logs, duser[r], "FAILED", f) IN
       /\ logs' = c.logs
       /\ applied' = [applied EXCEPT ![duser[r]] = IF c.err = "none" THEN @ + 1 ELSE @]
       /\ dclean' = [dclean EXCEPT ![r] = IF c.err = "none" THEN "ok" ELSE c.err]
  /\ dpc' = [dpc EXCEPT ![r] = "loop"]
  /\ derr' = [derr EXCEPT ![r] = "none"]
  /\ dseen' = [dseen EXCEPT ![r] = @ \cup {duser[r]}]
  /\ UNCHANGED <<dtodo, duser, dret>>
  /\ UNCHANGED <<variantVars, envVars, users, schedules, crons, fired, senderVars, apiVars>>

\* simple: an iteration is one scheduleMessage; its error ends the run
DailyScheduleOnly(r, u, f) ==
  /\ dpc[r] = "loop" /\ dailyImpl = "simple" /\ u \in dtodo[r]
  /\ LET c == scheduleMessage(schedules, u, f) IN
       /\ schedules' = c.schedules
       /\ crons' = expressionsAfter(c.schedules)
       /\ IF c.err = "none"
            THEN /\ dtodo' = [dtodo EXCEPT ![r] = @ \ {u}]
                 /\ dseen' = [dseen EXCEPT ![r] = @ \cup {u}]
                 /\ UNCHANGED <<dpc, dret>>
            ELSE DailyFinish(r, "thrown") /\ UNCHANGED dseen
  /\ duser' = [duser EXCEPT ![r] = u]
  /\ UNCHANGED <<dclean, derr>>
  /\ UNCHANGED <<variantVars, envVars, users, fired, storeVars, senderVars, apiVars>>

DailyEnd(r) ==
  /\ dpc[r] = "loop" /\ dtodo[r] = {}
  /\ DailyFinish(r, "ok")
  /\ UNCHANGED <<duser, dseen, dclean, derr>>
  /\ UNCHANGED <<variantVars, envVars, users, schedules, crons, fired, storeVars, senderVars, apiVars>>

\* ---- users API handler ----------------------------------------------------
ApiFinish(code) ==
  /\ apc' = "idle"
  /\ aret' = code

\* POST: createUser, then the birthday-is-today check
ApiPost(u, b, f) ==
  /\ apc = "idle" /\ users[u] = "none"
  /\ amethod' = "POST" /\ auser' = u /\ achanged' = FALSE
  /\ IF f THEN ApiFinish(500) /\ UNCHANGED users
     ELSE /\ users' = [users EXCEPT ![u] = b]
          /\ IF b = "today" THEN apc' = "schedule" /\ aret' = 0
                            ELSE ApiFinish(201)
  /\ UNCHANGED <<variantVars, envVars, schedules, crons, fired, storeVars, senderVars, dailyVars>>

\* POST: scheduleMessage for the new user
ApiPostSchedule(f) ==
  /\ apc = "schedule"
  /\ LET r == scheduleMessage(schedules, auser, f) IN
       /\ schedules' = r.schedules
       /\ crons' = expressionsAfter(r.schedules)
       /\ ApiFinish(IF r.err = "none" THEN 201 ELSE 500)
  /\ UNCHANGED <<amethod, auser, achanged>>
  /\ UNCHANGED <<variantVars, envVars, users, fired, storeVars, senderVars, dailyVars>>

\* PUT: updateUser
ApiPut(u, b, f) ==
  /\ apc = "idle"
  /\ amethod' = "PUT" /\ auser' = u
  /\ IF f THEN ApiFinish(500) /\ UNCHANGED users /\ achanged' = FALSE
     ELSE IF users[u] \in {"none", "deleted"}
       THEN ApiFinish(404) /\ UNCHANGED users /\ achanged' = FALSE
       ELSE /\ users' = [users EXCEPT ![u] = b]
            /\ achanged' = (users[u] # b)
            /\ apc' = "getlog" /\ aret' = 0
  /\ UNCHANGED <<variantVars, envVars, schedules, crons, fired, storeVars, senderVars, dailyVars>>

\* DELETE: deleteUser
ApiDelete(u, f) ==
  /\ apc = "idle"
  /\ amethod' = "DELETE" /\ auser' = u /\ achanged' = FALSE
  /\ IF f THEN ApiFinish(500) /\ UNCHANGED users
     ELSE IF users[u] \in {"none", "deleted"}
       THEN ApiFinish(404) /\ UNCHANGED users
       ELSE /\ users' = [users EXCEPT ![u] = "deleted"]
            /\ apc' = "getlog" /\ aret' = 0
  /\ UNCHANGED <<variantVars, envVars, schedules, crons, fired, storeVars, senderVars, dailyVars>>

\* PUT and DELETE: getMessageLog for today's key
ApiGetLog(f) ==
  /\ apc = "getlog"
  /\ IF f THEN ApiFinish(500)
     ELSE IF getMessageLog(logs, auser) # NoLog
       THEN apc' = "delete" /\ UNCHANGED aret
       ELSE ApiFinish(IF amethod = "PUT" THEN 200 ELSE 204)
  /\ UNCHANGED <<amethod, auser, achanged>>
  /\ UNCHANGED <<variantVars, envVars, users, schedules, crons, fired, storeVars, senderVars, dailyVars>>

\* PUT and DELETE: deleteSchedule whose error is only logged
ApiDeleteScheduleBestEffort(f) ==
  /\ apc = "delete"
  /\ LET r == deleteSchedule(schedules, auser, f) IN
       /\ schedules' = r.schedules
       /\ crons' = expressionsAfter(r.schedules)
       /\ ApiFinish(IF amethod = "PUT" THEN 200 ELSE 204)
  /\ UNCHANGED <<amethod, auser, achanged>>
  /\ UNCHANGED <<variantVars, envVars, users, fired, storeVars, senderVars, dailyVars>>

\* PUT and DELETE: deleteSchedule; its error reaches the handler's catch
ApiDeleteSchedule(f) ==
  /\ apc = "delete"
  /\ LET r == deleteSchedule(schedules, auser, f) IN
       /\ schedules' = r.schedules
       /\ crons' = expressionsAfter(r.schedules)
       /\ ApiFinish(IF r.err # "none" THEN 500
                    ELSE IF amethod = "PUT" THEN 200 ELSE 204)
  /\ UNCHANGED <<amethod, auser, achanged>>
  /\ UNCHANGED <<variantVars, envVars, users, fired, storeVars, senderVars, dailyVars>>

\* a request the handler rejects before any store call: missing userId or
\* invalid body (400), unsupported method (405)
ApiReject(code) ==
  /\ apc = "idle"
  /\ amethod' = "none" /\ achanged' = FALSE
  /\ ApiFinish(code)
  /\ UNCHANGED auser
  /\ UNCHANGED <<variantVars, envVars, users, schedules, crons, fired, storeVars, senderVars, dailyVars>>

\* ---- polling handler (Postgres users table) ---------------------------------
\* users[u] = "today" stands for: the local time of u is in the 09:00 window and
\* the local day is u's birthday.

\* (NOW() AT TIME ZONE location)::date compared with a timestamptz: the date
\* becomes the instant of its midnight in the session time zone (UTC)
localDateAsInstant(t, z) == ((t + UtcOffset(z)) \div (24 * 60)) * (24 * 60)

\* last_greeting_sent_at IS NULL OR last_greeting_sent_at < (NOW() AT TIME ZONE
\* location)::date
notSentToday(l, z, t) == ~l.sent \/ l.at < localDateAsInstant(t, z)

\* the due-now query: due users whose greeting is not marked as sent today
getUsersWithBirthdayNow(us, g) ==
  {u \in Users : us[u] = "today" /\ notSentToday(g[u], zone[u], now)}

\* an unconditional UPDATE of last_greeting_sent_at to NOW()
markGreetingSent(g, u) == [g EXCEPT ![u] = [sent |-> TRUE, at |-> now]]

PollFinish(r, res) ==
  /\ ppc' = [ppc EXCEPT ![r] = "idle"]
  /\ pret' = [pret EXCEPT ![r] = res]
  /\ ptodo' = [ptodo EXCEPT ![r] = {}]

\* the handler is invoked; getUsersWithBirthdayNow
PollStart(r, f) ==
  /\ ppc[r] = "idle" /\ pret[r] = "none"
  /\ IF f THEN PollFinish(r, "thrown")
     ELSE /\ ptodo' = [ptodo EXCEPT ![r] = getUsersWithBirthdayNow(users, lastGreetingSentAt)]
          /\ ppc' = [ppc EXCEPT ![r] = "loop"]
          /\ UNCHANGED pret
  /\ UNCHANGED <<lastGreetingSentAt, puser>>
  /\ UNCHANGED <<schedulerVars, senderVars, clockVars, queueVars>>

\* an iteration: the POST to the webhook endpoint; a failure is caught and
\* the loop goes on
PollSend(r, u, resp) ==
  /\ ppc[r] = "loop" /\ u \in ptodo[r]
  /\ ptodo' = [ptodo EXCEPT ![r] = @ \ {u}]
  /\ puser' = [puser EXCEPT ![r] = u]
  /\ calls' = [calls EXCEPT ![u] = @ + 1]
  /\ okCalls' = [okCalls EXCEPT ![u] = IF resp = "ok" THEN @ + 1 ELSE @]
  /\ ppc' = [ppc EXCEPT ![r] = IF resp = "ok" THEN "mark" ELSE "loop"]
  /\ UNCHANGED <<lastGreetingSentAt, pret>>
  /\ UNCHANGED <<schedulerVars, spc, suser, sweb, sret, invocations, clockVars, queueVars>>

\* markGreetingSent; its error is caught and the loop goes on
PollMark(r, f) ==
  /\ ppc[r] = "mark"
  /\ lastGreetingSentAt' = IF f THEN lastGreetingSentAt ELSE markGreetingSent(lastGreetingSentAt, puser[r])
  /\ ppc' = [ppc EXCEPT ![r] = "loop"]
  /\ UNCHANGED <<ptodo, puser, pret>>
  /\ UNCHANGED <<schedulerVars, senderVars, clockVars, queueVars>>

PollEnd(r) ==
  /\ ppc[r] = "loop" /\ ptodo[r] = {}
  /\ PollFinish(r, "ok")
  /\ UNCHANGED <<lastGreetingSentAt, puser>>
  /\ UNCHANGED <<schedulerVars, senderVars, clockVars, queueVars>>

\* ---- queueing poller (birthdayChecker of the queue variant) ------------------
\* "single": one SendMessage per user, each in its own try. "batch": the users
\* split into record lists of BATCH_SIZE, sent as the entries of one
\* SendMessageBatch.

\* array.slice(start, end) for 0 <= start <= end: the elements at the 0-based
\* indices start .. end - 1 that the array has
slice(array, start, end) ==
  LET from == IF start < Len(array) THEN start ELSE Len(array)
      to == IF end < Len(array) THEN end ELSE Len(array)
  IN [k \in 1..(to - from) |-> array[from + k]]

\* Array.from({ length: Math.floor(array.length / size) }, ...): the chunks
\* that are full
chunkArrayFloor(array, size) ==
  [i \in 1..(Len(array) \div size) |->
     slice(array, (i - 1) * size, (i - 1) * size + size)]

\* Array.from({ length: Math.ceil(array.length / size) },
\*            (_, i) => array.slice(i * size, i * size + size))
chunkArray(array, size) ==
  [i \in 1..((Len(array) + size - 1) \div size) |->
     slice(array, (i - 1) * size, (i - 1) * size + size)]

\* the rows of a query result, in id order
rowsOf(todo) ==
  [k \in 1..Cardinality(todo) |->
     CHOOSE u \in todo : Cardinality({v \in todo : v < u}) = k - 1]

\* messageChunks: the record list of each chunk of the users to greet
messageChunks(todo) ==
  LET chunks == chunkArray(rowsOf(todo), BATCH_SIZE)
  IN { {chunks[i][k] : k \in 1..Len(chunks[i])} : i \in 1..Len(chunks) }

EnqueueFinish(res) ==
  /\ epc' = "idle"
  /\ eret' = res
  /\ etodo' = {}

\* the handler is invoked; getUsersWithBirthdayNow, whose error is rethrown
EnqueueStart(f) ==
  /\ epc = "idle"
  /\ IF f THEN EnqueueFinish("thrown")
     ELSE /\ etodo' = getUsersWithBirthdayNow(users, lastGreetingSentAt)
          /\ epc' = IF pollerImpl = "batch" THEN "batch" ELSE "loop"
          /\ UNCHANGED eret
  /\ UNCHANGED <<ebatches, sqsVars, consumerVars, retryVars>>
  /\ UNCHANGED <<schedulerVars, senderVars, pollVars, clockVars>>

\* batch: SendMessageBatch with one entry per chunk. The call fails as a
\* whole (f, or no entry at all, which SQS rejects) and the error is rethrown,
\* or SQS answers with the entries it accepted and those that Failed, which
\* the handler logs before it returns
EnqueueBatch(Failed, f) ==
  /\ epc = "batch"
  /\ LET entries == messageChunks(etodo) IN
       IF f \/ entries = {}
         THEN Failed = {} /\ EnqueueFinish("thrown") /\ UNCHANGED ebatches
         ELSE /\ Failed \subseteq entries
              /\ ebatches' = ebatches \cup (entries \ Failed)
              /\ EnqueueFinish("ok")
  /\ UNCHANGED <<sqsVars, consumerVars, retryVars>>
  /\ UNCHANGED <<schedulerVars, senderVars, pollVars, clockVars>>

\* single: an iteration, SendMessage for user u as message n; its error is
\* caught and the loop goes on
EnqueueSend(u, n, f) ==
  /\ epc = "loop" /\ u \in etodo
  /\ etodo' = etodo \ {u}
  /\ IF f THEN n = 1 /\ UNCHANGED sqsVars
     ELSE /\ qwhere[n] = "none" /\ \A k \in Msgs : qwhere[k] = "none" => n <= k
          /\ qwhere' = [qwhere EXCEPT ![n] = "main"]
          /\ quser' = [quser EXCEPT ![n] = u]
          /\ qrc' = [qrc EXCEPT ![n] = 0]
          /\ qvis' = [qvis EXCEPT ![n] = TRUE]
          /\ qfrom' = [qfrom EXCEPT ![n] = 0]
          /\ qretry' = [qretry EXCEPT ![n] = 0]
  /\ UNCHANGED <<epc, eret, ebatches, consumerVars, retryVars>>
  /\ UNCHANGED <<schedulerVars, senderVars, pollVars, clockVars>>

\* single: the loop is over
EnqueueEnd ==
  /\ epc = "loop" /\ etodo = {}
  /\ EnqueueFinish("ok")
  /\ UNCHANGED <<ebatches, sqsVars, consumerVars, retryVars>>
  /\ UNCHANGED <<schedulerVars, senderVars, pollVars, clockVars>>

\* ---- queue consumer (webhookSender, one record per event) --------------------
\* whether a greeting may be sent: none is marked for this birthday
canSendGreeting(g, u) == ~g[u].sent

\* the conditional UPDATE of last_greeting_sent_at: a row that is already
\* marked is not updated and the call throws
updateLastGreetingSent(g, u, f) ==
  IF f THEN [err |-> "Database error", lastGreetingSentAt |-> g]
  ELSE IF g[u].sent THEN [err |-> "User not found or greeting already sent this year",
                     lastGreetingSentAt |-> g]
  ELSE [err |-> "none", lastGreetingSentAt |-> [g EXCEPT ![u] = [sent |-> TRUE, at |-> now]]]

\* the handler returns: the event source deletes the record from the queue
ConsumerReturn ==
  /\ cpc' = "idle"
  /\ cret' = "ok"
  /\ cmsg' = 1
  /\ qwhere' = [qwhere EXCEPT ![cmsg] = "gone"]
  /\ UNCHANGED <<quser, qrc, qvis, qfrom, qretry>>

\* the handler rethrows: the record stays in the main queue and becomes
\* visible again
ConsumerThrow(err) ==
  /\ cpc' = "idle"
  /\ cret' = err
  /\ cmsg' = 1
  /\ qvis' = [qvis EXCEPT ![cmsg] = TRUE]
  /\ UNCHANGED <<qwhere, quser, qrc, qfrom, qretry>>

\* the event source receives a visible message of the main queue and invokes
\* the handler with it
ConsumerReceive(m) ==
  /\ cpc = "idle"
  /\ qwhere[m] = "main" /\ qvis[m] /\ qrc[m] < maxReceiveCount
  /\ qrc' = [qrc EXCEPT ![m] = @ + 1]
  /\ qvis' = [qvis EXCEPT ![m] = FALSE]
  /\ cmsg' = m
  /\ cpc' = "check"
  /\ UNCHANGED <<qwhere, quser, qfrom, qretry, cret, retryVars>>
  /\ UNCHANGED <<schedulerVars, senderVars, pollVars, clockVars, enqueueVars>>

\* a message received maxReceiveCount times and not deleted is moved to the
\* dead-letter queue
SqsRedrive(m) ==
  /\ qwhere[m] = "main" /\ qvis[m] /\ qrc[m] >= maxReceiveCount
  /\ qwhere' = [qwhere EXCEPT ![m] = "dlq"]
  /\ UNCHANGED <<quser, qrc, qvis, qfrom, qretry, consumerVars, retryVars>>
  /\ UNCHANGED <<schedulerVars, senderVars, pollVars, clockVars, enqueueVars>>

\* processWebhook: canSendGreeting; false returns, an error is rethrown
ConsumerCheck(f) ==
  /\ cpc = "check"
  /\ IF f THEN ConsumerThrow("Database error")
     ELSE IF canSendGreeting(lastGreetingSentAt, quser[cmsg])
       THEN cpc' = "send" /\ UNCHANGED <<cmsg, cret, sqsVars>>
       ELSE ConsumerReturn
  /\ UNCHANGED retryVars
  /\ UNCHANGED <<schedulerVars, senderVars, pollVars, clockVars, enqueueVars>>

\* processWebhook: the POST to the webhook endpoint; a failure is rethrown
ConsumerSend(resp) ==
  /\ cpc = "send"
  /\ calls' = [calls EXCEPT ![quser[cmsg]] = @ + 1]
  /\ okCalls' = [okCalls EXCEPT ![quser[cmsg]] = IF resp = "ok" THEN @ + 1 ELSE @]
  /\ IF resp = "ok"
       THEN cpc' = "update" /\ UNCHANGED <<cmsg, cret, sqsVars>>
       ELSE ConsumerThrow("Webhook failed")
  /\ UNCHANGED retryVars
  /\ UNCHANGED <<schedulerVars, spc, suser, sweb, sret, invocations, pollVars, clockVars, enqueueVars>>

\* processWebhook: updateLastGreetingSent; an error is rethrown
ConsumerUpdate(f) ==
  /\ cpc = "update"
  /\ LET c == updateLastGreetingSent(lastGreetingSentAt, quser[cmsg], f) IN
       /\ lastGreetingSentAt' = c.lastGreetingSentAt
       /\ IF c.err = "none" THEN ConsumerReturn ELSE ConsumerThrow(c.err)
  /\ UNCHANGED retryVars
  /\ UNCHANGED <<schedulerVars, senderVars, ppc, ptodo, puser, pret, clockVars, enqueueVars>>

\* ---- retry handler (webhookRetry, hourly) --------------------------------------
RetryFinish(res) ==
  /\ rpc' = "idle"
  /\ rret' = res
  /\ rbatch' = {}
  /\ rmsg' = 1

\* GetQueueAttributes on the dead-letter queue; no message ends the run, an
\* error of the call is not caught
RetryStart(f) ==
  /\ rpc = "idle"
  /\ IF f THEN RetryFinish("thrown")
     ELSE IF \A m \in Msgs : qwhere[m] # "dlq" THEN RetryFinish("ok")
     ELSE rpc' = "receive" /\ UNCHANGED <<rbatch, rmsg, rret>>
  /\ UNCHANGED <<sqsVars, consumerVars>>
  /\ UNCHANGED <<schedulerVars, senderVars, pollVars, clockVars, enqueueVars>>

\* ReceiveMessage: SQS returns some of the visible messages, at most
\* MaxNumberOfMessages, and hides them for the visibility timeout; first is
\* Messages[0] (1 when there is none); an error of the call is not caught
RetryReceive(B, first, f) ==
  /\ rpc = "receive"
  /\ IF f THEN B = {} /\ first = 1 /\ RetryFinish("thrown") /\ UNCHANGED qvis
     ELSE /\ B \subseteq {m \in Msgs : qwhere[m] = "dlq" /\ qvis[m]}
          /\ Cardinality(B) <= MaxNumberOfMessages
          /\ qvis' = [m \in Msgs |-> IF m \in B THEN FALSE ELSE qvis[m]]
          /\ IF B = {}
               THEN first = 1 /\ RetryFinish("ok")
               ELSE /\ first \in B
                    /\ rmsg' = first
                    /\ rbatch' = B
                    /\ rpc' = "send"
                    /\ UNCHANGED rret
  /\ UNCHANGED <<qwhere, quser, qrc, qfrom, qretry, consumerVars>>
  /\ UNCHANGED <<schedulerVars, senderVars, pollVars, clockVars, enqueueVars>>

\* the send with its error swallowed like that of the delete: the run goes on
\* to deleteFromDLQ
RetrySendUnchecked(n, f) ==
  /\ rpc = "send"
  /\ IF f THEN rpc' = "delete" /\ UNCHANGED <<rbatch, rmsg, rret, sqsVars>>
     ELSE /\ qwhere[n] = "none" /\ \A k \in Msgs : qwhere[k] = "none" => n <= k
          /\ qwhere' = [qwhere EXCEPT ![n] = "main"]
          /\ quser' = [quser EXCEPT ![n] = quser[rmsg]]
          /\ qrc' = [qrc EXCEPT ![n] = 0]
          /\ qvis' = [qvis EXCEPT ![n] = TRUE]
          /\ qfrom' = [qfrom EXCEPT ![n] = rmsg]
          /\ qretry' = [qretry EXCEPT ![n] = qretry[rmsg]]
          /\ rpc' = "delete"
          /\ UNCHANGED <<rbatch, rmsg, rret>>
  /\ UNCHANGED consumerVars
  /\ UNCHANGED <<schedulerVars, senderVars, pollVars, clockVars, enqueueVars>>

\* SendMessage of Messages[0].Body to the main queue: a new message; an error
\* is caught and ends the run
RetrySend(n, f) ==
  /\ rpc = "send"
  /\ IF f THEN RetryFinish("ok") /\ UNCHANGED sqsVars
     ELSE /\ qwhere[n] = "none" /\ \A k \in Msgs : qwhere[k] = "none" => n <= k
          /\ qwhere' = [qwhere EXCEPT ![n] = "main"]
          /\ quser' = [quser EXCEPT ![n] = quser[rmsg]]
          /\ qrc' = [qrc EXCEPT ![n] = 0]
          /\ qvis' = [qvis EXCEPT ![n] = TRUE]
          /\ qfrom' = [qfrom EXCEPT ![n] = rmsg]
          /\ qretry' = [qretry EXCEPT ![n] = qretry[rmsg]]
          /\ rpc' = "delete"
          /\ UNCHANGED <<rbatch, rmsg, rret>>
  /\ UNCHANGED consumerVars
  /\ UNCHANGED <<schedulerVars, senderVars, pollVars, clockVars, enqueueVars>>

\* deleteFromDLQ: DeleteMessage of Messages[0]; its error is swallowed
RetryDelete(f) ==
  /\ rpc = "delete"
  /\ qwhere' = IF f THEN qwhere ELSE [qwhere EXCEPT ![rmsg] = "gone"]
  /\ RetryFinish("ok")
  /\ UNCHANGED <<quser, qrc, qvis, qfrom, qretry, consumerVars>>
  /\ UNCHANGED <<schedulerVars, senderVars, pollVars, clockVars, enqueueVars>>

\* the visibility timeout of a received dead-letter message runs out
VisibilityExpire(m) ==
  /\ rpc = "idle"
  /\ qwhere[m] = "dlq" /\ ~qvis[m]
  /\ qvis' = [qvis EXCEPT ![m] = TRUE]
  /\ UNCHANGED <<qwhere, quser, qrc, qfrom, qretry, consumerVars, retryVars>>
  /\ UNCHANGED <<schedulerVars, senderVars, pollVars, clockVars, enqueueVars>>

\* ---- retryFailedWebhooks (the scheduled branch of the webhook handler) --------
CycleFinish(res) ==
  /\ wpc' = "idle"
  /\ wret' = res
  /\ wbatch' = {}
  /\ wmsg' = 1

\* GetQueueAttributes on the dead-letter queue; no message ends the cycle, an
\* error of the call reaches the handler's catch, which rethrows
CycleStart(f) ==
  /\ wpc = "idle"
  /\ wtried' = [m \in Msgs |-> 0]
  /\ IF f THEN CycleFinish("thrown")
     ELSE IF \A m \in Msgs : qwhere[m] # "dlq" THEN CycleFinish("ok")
     ELSE wpc' = "receive" /\ UNCHANGED <<wbatch, wmsg, wret>>
  /\ UNCHANGED <<coreVars, senderVars, pollVars, clockVars, queueVars>>

\* while (true): ReceiveMessage, which hides the messages it returns for the
\* visibility timeout; an empty result leaves the loop, an error of the call
\* is rethrown
CycleReceive(B, f) ==
  /\ wpc = "receive"
  /\ IF f THEN B = {} /\ CycleFinish("thrown") /\ UNCHANGED qvis
     ELSE /\ B \subseteq {m \in Msgs : qwhere[m] = "dlq" /\ qvis[m]}
          /\ Cardinality(B) <= MaxNumberOfMessages
          /\ qvis' = [m \in Msgs |-> IF m \in B THEN FALSE ELSE qvis[m]]
          /\ IF B = {}
               THEN CycleFinish("ok")
               ELSE /\ wbatch' = B
                    /\ wpc' = "loop"
                    /\ UNCHANGED <<wmsg, wret>>
  /\ UNCHANGED <<wtried, qwhere, quser, qrc, qfrom, qretry, consumerVars, retryVars,
                 enqueueVars>>
  /\ UNCHANGED <<coreVars, senderVars, pollVars, clockVars>>

\* the next message of the for loop; processWebhook: canSendGreeting, whose
\* error is caught by the loop's catch; false returns and the message is deleted
CycleCheck(m, f) ==
  /\ wpc = "loop" /\ m \in wbatch
  /\ wmsg' = m
  /\ wbatch' = wbatch \ {m}
  /\ wtried' = [wtried EXCEPT ![m] = @ + 1]
  /\ wpc' = IF f THEN "loop"
            ELSE IF canSendGreeting(lastGreetingSentAt, quser[m]) THEN "send"
            ELSE "delete"
  /\ UNCHANGED wret
  /\ UNCHANGED <<coreVars, senderVars, pollVars, clockVars, queueVars>>

\* the for loop is over: the next ReceiveMessage
CycleLoopEnd ==
  /\ wpc = "loop" /\ wbatch = {}
  /\ wpc' = "receive"
  /\ UNCHANGED <<wbatch, wmsg, wret, wtried>>
  /\ UNCHANGED <<coreVars, senderVars, pollVars, clockVars, queueVars>>

\* processWebhook: the POST to the webhook endpoint; a failure is rethrown to
\* the loop's catch, which leaves the message in the dead-letter queue
CycleSend(resp) ==
  /\ wpc = "send"
  /\ calls' = [calls EXCEPT ![quser[wmsg]] = @ + 1]
  /\ okCalls' = [okCalls EXCEPT ![quser[wmsg]] = IF resp = "ok" THEN @ + 1 ELSE @]
  /\ wpc' = IF resp = "ok" THEN "update" ELSE "loop"
  /\ UNCHANGED <<wbatch, wmsg, wret, wtried>>
  /\ UNCHANGED <<coreVars, spc, suser, sweb, sret, invocations, pollVars, clockVars,
                 queueVars>>

\* processWebhook: updateLastGreetingSent; an error is rethrown to the loop's
\* catch
CycleUpdate(f) ==
  /\ wpc = "update"
  /\ LET c == updateLastGreetingSent(lastGreetingSentAt, quser[wmsg], f) IN
       /\ lastGreetingSentAt' = c.lastGreetingSentAt
       /\ wpc' = IF c.err = "none" THEN "delete" ELSE "loop"
  /\ UNCHANGED <<wbatch, wmsg, wret, wtried>>
  /\ UNCHANGED <<coreVars, senderVars, ppc, ptodo, puser, pret, clockVars, queueVars>>

\* DeleteMessage of the message that was processed; its error is caught by
\* the loop's catch
CycleDelete(f) ==
  /\ wpc = "delete"
  /\ qwhere' = IF f THEN qwhere ELSE [qwhere EXCEPT ![wmsg] = "gone"]
  /\ wpc' = "loop"
  /\ UNCHANGED <<wbatch, wmsg, wret, wtried>>
  /\ UNCHANGED <<quser, qrc, qvis, qfrom, qretry, consumerVars, retryVars, enqueueVars>>
  /\ UNCHANGED <<coreVars, senderVars, pollVars, clockVars>>

\* ---- trigger service: a registered trigger invokes the sender -------------
\* a cron trigger names one instant and fires once; rate(1 minute) recurs
TriggerFire(p, u) ==
  /\ u \in schedules
  /\ isLocal \/ u \notin fired
  /\ fired' = fired \cup {u}
  /\ SenderStart(p, u, MaxInvocations)
  /\ UNCHANGED <<variantVars, envVars, users, schedules, crons, storeVars, dailyVars, apiVars>>

SenderSteps(p) ==
  \/ \E f \in BOOLEAN : SenderGetLog(p, f)
  \/ \E f \in BOOLEAN : SenderCreateLog(p, f)
  \/ \E resp \in Responses : SenderSend(p, resp)
  \/ \E f \in BOOLEAN : SenderUpdateSent(p, f)
  \/ \E f \in BOOLEAN : SenderUpdateFailed(p, f)

TrackedSteps(r) ==
  \/ \E u \in Users, f \in BOOLEAN : DailyGetLog(r, u, f)
  \/ \E f \in BOOLEAN : DailyCreateLog(r, f)
  \/ \E f \in BOOLEAN : DailySchedule(r, f)
  \/ \E f \in BOOLEAN : DailyCleanup(r, f)
  \/ DailyEnd(r)

\* the scheduled run of the day
DailyRun(f) == dret[1] = "none" /\ DailyStart(1, f)

ApiNext ==
  \/ \E u \in Users, b \in {"today", "other"}, f \in BOOLEAN : ApiPost(u, b, f)
  \/ \E f \in BOOLEAN : ApiPostSchedule(f)
  \/ \E u \in Users, b \in {"today", "other"}, f \in BOOLEAN : ApiPut(u, b, f)
  \/ \E u \in Users, f \in BOOLEAN : ApiDelete(u, f)
  \/ \E f \in BOOLEAN : ApiGetLog(f)
  \/ \E f \in BOOLEAN : ApiDeleteSchedule(f)
  \/ \E code \in {400, 405} : ApiReject(code)

\* ---- the delivery pipeline ------------------------------------------------
\* Concurrent sender invocations for one occurrence (user ids are symmetric:
\* the occurrence is that of user 1) while the tracked daily aggregator makes
\* its run over all users; the users table does not change during the run.
Init ==
  /\ senderImpl \in {"capped", "uncapped"}
  /\ dailyImpl = "tracked"
  /\ isLocal = FALSE
  /\ schedulerImpl = "utc"
  /\ pollerImpl = "single"
  /\ users \in [Users -> {"today", "other"}]
  /\ InitState

Next ==
  \/ \E p \in Senders : SenderInvoke(p, 1)
  \/ \E p \in Senders : SenderSteps(p)
  \/ \E f \in BOOLEAN : DailyRun(f)
  \/ TrackedSteps(1)

Spec == Init /\ [][Next]_vars

\* ---- user management ------------------------------------------------------
\* The users API and either daily aggregator (which may be re-run).
InitApi ==
  /\ senderImpl = "capped"
  /\ dailyImpl \in {"tracked", "simple"}
  /\ isLocal = FALSE
  /\ schedulerImpl = "utc"
  /\ pollerImpl = "single"
  /\ users \in [Users -> {"none", "today", "other"}]
  /\ InitState

NextApi ==
  \/ ApiNext
  \/ \E f \in BOOLEAN : DailyStart(1, f)
  \/ TrackedSteps(1)
  \/ \E u \in Users, f \in BOOLEAN : DailyScheduleOnly(1, u, f)

SpecApi == InitApi /\ [][NextApi]_vars

\* ---- requests on users with records and triggers ------------------------------
\* The users API alone, started in the states the aggregators and the POST
\* path leave behind: a created user may have a record (PENDING, or FAILED by
\* the aggregator's cleanup) and may have a trigger, in any combination.
InitCancel ==
  /\ senderImpl = "capped"
  /\ dailyImpl = "tracked"
  /\ isLocal = FALSE
  /\ schedulerImpl = "utc"
  /\ pollerImpl = "single"
  /\ users \in [Users -> {"none", "today", "other"}]
  /\ fired = {}
  /\ schedules \in SUBSET {u \in Users : users[u] # "none"}
  /\ InitClock
  /\ crons = [u \in Users |->
               IF u \in schedules
                 THEN cronExpression(schedulerImpl, isLocal, zone[u], today)
                 ELSE NoCron]
  /\ logs \in [Users -> {NoLog, [status |-> "PENDING", attempts |-> 0],
                         [status |-> "FAILED", attempts |-> 1]}]
  /\ \A u \in Users : users[u] = "none" => logs[u] = NoLog
  /\ applied = [u \in Users |-> IF logs[u].status = "FAILED" THEN 1 ELSE 0]
  /\ spc = [p \in Senders |-> "idle"]
  /\ suser = [p \in Senders |-> 1]
  /\ sweb = [p \in Senders |-> "none"]
  /\ sret = [p \in Senders |-> "none"]
  /\ calls = [u \in Users |-> 0]
  /\ okCalls = [u \in Users |-> 0]
  /\ invocations = 0
  /\ dpc = [r \in Runs |-> "idle"]
  /\ dtodo = [r \in Runs |-> {}]
  /\ duser = [r \in Runs |-> 1]
  /\ dret = [r \in Runs |-> "none"]
  /\ dseen = [r \in Runs |-> {}]
  /\ dclean = [r \in Runs |-> "none"]
  /\ derr = [r \in Runs |-> "none"]
  /\ apc = "idle"
  /\ amethod = "none"
  /\ auser = 1
  /\ achanged = FALSE
  /\ aret = 0
  /\ InitPolling /\ InitQueue /\ InitPast /\ InitCycle /\ InitProcess /\ InitChunk

SpecCancel == InitCancel /\ [][ApiNext]_vars

\* ---- sequential delivery against a failing endpoint -----------------------
\* The capped sender, one handler invocation at a time, and a webhook endpoint
\* that never answers 2xx.
InitSeq ==
  /\ senderImpl = "capped"
  /\ dailyImpl = "tracked"
  /\ isLocal = FALSE
  /\ schedulerImpl = "utc"
  /\ pollerImpl = "single"
  /\ users \in [Users -> {"today", "other"}]
  /\ InitState

NoneRunning == dpc[1] = "idle" /\ \A p \in Senders : spc[p] = "idle"

SeqInvoke(p, u) ==
  /\ NoneRunning
  /\ SenderStart(p, u, MaxSeqInvocations)
  /\ UNCHANGED <<variantVars, envVars, users, schedules, crons, fired, storeVars, dailyVars, apiVars>>

SeqDailyRun(f) == NoneRunning /\ DailyRun(f)

NextSeq ==
  \/ \E p \in Senders : SeqInvoke(p, 1)
  \/ \E p \in Senders, f \in BOOLEAN : SenderGetLog(p, f)
  \/ \E p \in Senders, f \in BOOLEAN : SenderCreateLog(p, f)
  \/ \E p \in Senders, resp \in {"http_error", "net_error"} : SenderSend(p, resp)
  \/ \E p \in Senders, f \in BOOLEAN : SenderUpdateFailed(p, f)
  \/ \E f \in BOOLEAN : SeqDailyRun(f)
  \/ TrackedSteps(1)

SpecSeq == InitSeq /\ [][NextSeq]_vars

\* ---- unattended operation ----------------------------------------------------
\* Only what the deployed system does by itself: the scheduled daily run, the
\* registered triggers firing, and the handlers they invoke.  The sender turns
\* every error into a 500 response, so no invocation of it fails and the
\* runtime never re-invokes it.  A second run of an aggregator cannot register
\* a key's trigger again (the tracked one skips a key that has a record, the
\* simple one is refused a name that is taken), so one run is modelled.
InitAuto ==
  /\ senderImpl \in {"capped", "uncapped"}
  /\ dailyImpl \in {"tracked", "simple"}
  /\ isLocal = FALSE
  /\ schedulerImpl = "utc"
  /\ pollerImpl = "single"
  /\ users \in [Users -> {"today", "other"}]
  /\ InitState

NextAuto ==
  \/ \E f \in BOOLEAN : DailyRun(f)
  \/ TrackedSteps(1)
  \/ \E u \in Users, f \in BOOLEAN : DailyScheduleOnly(1, u, f)
  \/ \E p \in Senders, u \in Users : TriggerFire(p, u)
  \/ \E p \in Senders : SenderSteps(p)

SpecAuto == InitAuto /\ [][NextAuto]_vars

\* nothing is running and nothing is left that would start a handler
Quiescent ==
  /\ \A p \in Senders : spc[p] = "idle"
  /\ dpc[1] = "idle" /\ dret[1] # "none"
  /\ \A u \in schedules : u \in fired

\* ---- overlapping aggregator runs -------------------------------------------
\* The tracked aggregator invoked more than once for the same day (the
\* scheduled event delivered twice, or the HTTP route used beside it); each
\* invocation makes one run.
InitDaily ==
  /\ senderImpl = "capped"
  /\ dailyImpl = "tracked"
  /\ isLocal = FALSE
  /\ schedulerImpl = "utc"
  /\ pollerImpl = "single"
  /\ users \in [Users -> {"today", "other"}]
  /\ InitState

DailyInvoke(r, f) == dret[r] = "none" /\ DailyStart(r, f)

NextDaily ==
  \/ \E r \in Runs, f \in BOOLEAN : DailyInvoke(r, f)
  \/ \E r \in Runs : TrackedSteps(r)

SpecDaily == InitDaily /\ [][NextDaily]_vars

\* ---- DatabaseService singleton of one process -------------------------------
\* A Lambda process serves its invocations one after the other and keeps its
\* static fields between them.
elsewhereVars == <<envVars, users, schedules, crons, fired, storeVars, spc, suser, sweb,
                   sret, invocations, dailyVars, apiVars, ppc, ptodo, puser, pret,
                   clockVars, queueVars, pastVars, cycleVars, chunkVars>>
outsideVars == <<elsewhereVars, calls, okCalls>>

\* DatabaseService.getInstance: a new object only while the static field is unset
getInstance(inst, n) ==
  IF inst = 0 THEN [instance |-> n + 1, created |-> n + 1]
  ELSE [instance |-> inst, created |-> n]

\* DatabaseService.cleanup: pool.end(), and nothing else
cleanup(ends, i) == [ends EXCEPT ![i] = @ + 1]

\* a query of object i is issued on a pool whose end() was called; the pool
\* rejects it
queryIsLate(i) == poolEnds[i] > 0

\* processWebhook of one record: getInstance
WebhookGetInstance(u) ==
  /\ hpc = "idle" /\ hdone < MaxRecords
  /\ LET g == getInstance(instance, created) IN
       /\ instance' = g.instance
       /\ created' = g.created
       /\ hdb' = g.instance
  /\ huser' = u
  /\ hkind' = "sqs"
  /\ hret' = "none"
  /\ hpc' = "check"
  /\ UNCHANGED <<poolEnds, lateQueries, hdone, lastGreetingSentAt, outsideVars>>

\* processWebhook: canSendGreeting; false returns inside the try, an error is
\* rethrown, and both go through the finally
WebhookCanSend(f) ==
  /\ hpc = "check"
  /\ lateQueries' = IF queryIsLate(hdb) THEN lateQueries + 1 ELSE lateQueries
  /\ IF f \/ queryIsLate(hdb)
       THEN hret' = "Database error" /\ hpc' = "cleanup"
       ELSE IF ~canSendGreeting(lastGreetingSentAt, huser)
         THEN hret' = "ok" /\ hpc' = "cleanup"
         ELSE hpc' = "send" /\ UNCHANGED hret
  /\ UNCHANGED <<instance, created, poolEnds, hdb, huser, hkind, hdone>>
  /\ UNCHANGED <<lastGreetingSentAt, outsideVars>>

\* processWebhook: the POST to the webhook
WebhookFetch(resp) ==
  /\ hpc = "send"
  /\ calls' = [calls EXCEPT ![huser] = @ + 1]
  /\ okCalls' = [okCalls EXCEPT ![huser] = IF resp = "ok" THEN @ + 1 ELSE @]
  /\ IF resp = "ok" THEN hpc' = "update" /\ UNCHANGED hret
     ELSE hret' = "Webhook failed" /\ hpc' = "cleanup"
  /\ UNCHANGED <<poolVars, hdb, huser, hkind, hdone, lastGreetingSentAt, elsewhereVars>>

\* processWebhook: updateLastGreetingSent
WebhookUpdate(f) ==
  /\ hpc = "update"
  /\ lateQueries' = IF queryIsLate(hdb) THEN lateQueries + 1 ELSE lateQueries
  /\ LET c == updateLastGreetingSent(lastGreetingSentAt, huser, f \/ queryIsLate(hdb)) IN
       /\ lastGreetingSentAt' = c.lastGreetingSentAt
       /\ hret' = IF c.err = "none" THEN "ok" ELSE c.err
  /\ hpc' = "cleanup"
  /\ UNCHANGED <<instance, created, poolEnds, hdb, huser, hkind, hdone, outsideVars>>

\* finally { await db.cleanup() } of a handler; a second end() of a pool
\* rejects, and the rejection replaces the outcome of the try and the catch
HandlerCleanup ==
  /\ hpc = "cleanup"
  /\ poolEnds' = cleanup(poolEnds, hdb)
  /\ hret' = IF poolEnds[hdb] > 0 THEN "Called end on pool more than once" ELSE hret
  /\ hpc' = "idle"
  /\ hdone' = hdone + 1
  /\ UNCHANGED <<instance, created, lateQueries, hdb, huser, hkind>>
  /\ UNCHANGED <<lastGreetingSentAt, outsideVars>>

InitSingleton ==
  /\ senderImpl = "capped"
  /\ dailyImpl = "tracked"
  /\ isLocal = FALSE
  /\ schedulerImpl = "utc"
  /\ pollerImpl = "single"
  /\ users = [u \in Users |-> "today"]
  /\ InitScheduler /\ InitClock /\ InitQueue /\ InitPast /\ InitCycle /\ InitProcess /\ InitChunk
  /\ lastGreetingSentAt \in [Users -> {NeverSent, [sent |-> TRUE, at |-> 0]}]
  /\ ppc = [r \in Runs |-> "idle"]
  /\ ptodo = [r \in Runs |-> {}]
  /\ puser = [r \in Runs |-> 1]
  /\ pret = [r \in Runs |-> "none"]

NextSingleton ==
  \/ \E u \in Users : WebhookGetInstance(u)
  \/ \E f \in BOOLEAN : WebhookCanSend(f)
  \/ \E resp \in Responses : WebhookFetch(resp)
  \/ \E f \in BOOLEAN : WebhookUpdate(f)
  \/ HandlerCleanup

SpecSingleton == InitSingleton /\ [][NextSingleton]_vars

\* ---- chunkArray -------------------------------------------------------------------
\* One call of chunkArray on an array of at most MaxLen elements with a size of
\* 1..MaxSize or BATCH_SIZE.
InitChunkArray ==
  /\ senderImpl = "capped"
  /\ dailyImpl = "tracked"
  /\ isLocal = FALSE
  /\ schedulerImpl = "utc"
  /\ pollerImpl = "batch"
  /\ users = [u \in Users |-> "today"]
  /\ InitScheduler /\ InitPolling /\ InitClock /\ InitQueue /\ InitPast /\ InitCycle
  /\ InitProcess
  /\ karray \in UNION {[1..n -> Users] : n \in 0..MaxLen}
  /\ ksize \in (1..MaxSize) \cup {BATCH_SIZE}
  /\ kchunks = <<>>
  /\ kdone = FALSE

ChunkArrayCall ==
  /\ ~kdone
  /\ kchunks' = chunkArray(karray, ksize)
  /\ kdone' = TRUE
  /\ UNCHANGED <<karray, ksize>>
  /\ UNCHANGED <<envVars, users, schedules, crons, fired, storeVars, senderVars, dailyVars,
                 apiVars, pollVars, clockVars, queueVars, pastVars, cycleVars, processVars>>

NextChunkArray == ChunkArrayCall

SpecChunkArray == InitChunkArray /\ [][NextChunkArray]_vars

\* ---- queueing poller in its process ---------------------------------------------
\* The poller as one handler of a process, from getInstance to the finally: a
\* scheduled or (per-user poller only) an HTTP event.
pollerOutside == <<envVars, users, schedules, crons, fired, storeVars, senderVars, dailyVars,
                   apiVars, pollVars, clockVars, consumerVars, retryVars, epc, eret,
                   pastVars, cycleVars, chunkVars>>

PollerInvoke(kind) ==
  /\ hpc = "idle" /\ hdone < MaxRecords
  /\ pollerImpl = "batch" => kind = "scheduled"
  /\ LET g == getInstance(instance, created) IN
       /\ instance' = g.instance
       /\ created' = g.created
       /\ hdb' = g.instance
  /\ hkind' = kind
  /\ hret' = "none"
  /\ hpc' = "query"
  /\ UNCHANGED <<poolEnds, lateQueries, huser, hdone, etodo, ebatches, sqsVars, pollerOutside>>

\* getUsersWithBirthdayNow; its error goes to the outer catch, which returns
\* status 500 for an HTTP event and rethrows for a scheduled one
PollerQuery(f) ==
  /\ hpc = "query"
  /\ lateQueries' = IF queryIsLate(hdb) THEN lateQueries + 1 ELSE lateQueries
  /\ IF f \/ queryIsLate(hdb)
       THEN /\ hret' = IF hkind = "http" THEN "500" ELSE "Database error"
            /\ hpc' = "cleanup"
            /\ UNCHANGED etodo
       ELSE /\ etodo' = getUsersWithBirthdayNow(users, lastGreetingSentAt)
            /\ hpc' = IF pollerImpl = "batch" THEN "batch" ELSE "loop"
            /\ UNCHANGED hret
  /\ UNCHANGED <<instance, created, poolEnds, hdb, huser, hkind, hdone>>
  /\ UNCHANGED <<ebatches, sqsVars, pollerOutside>>

\* per-user poller: an iteration, SendMessage for user u as message n; its
\* error is caught and the loop goes on
PollerSend(u, n, f) ==
  /\ hpc = "loop" /\ u \in etodo
  /\ etodo' = etodo \ {u}
  /\ IF f THEN n = 1 /\ UNCHANGED sqsVars
     ELSE /\ qwhere[n] = "none" /\ \A k \in Msgs : qwhere[k] = "none" => n <= k
          /\ qwhere' = [qwhere EXCEPT ![n] = "main"]
          /\ quser' = [quser EXCEPT ![n] = u]
          /\ qrc' = [qrc EXCEPT ![n] = 0]
          /\ qvis' = [qvis EXCEPT ![n] = TRUE]
          /\ qfrom' = [qfrom EXCEPT ![n] = 0]
          /\ qretry' = [qretry EXCEPT ![n] = 0]
  /\ UNCHANGED <<poolVars, hpc, hdb, huser, hkind, hret, hdone, ebatches, pollerOutside>>

\* per-user poller: the loop is over; an HTTP event gets status 200
PollerLoopEnd ==
  /\ hpc = "loop" /\ etodo = {}
  /\ hret' = IF hkind = "http" THEN "200" ELSE "ok"
  /\ hpc' = "cleanup"
  /\ UNCHANGED <<poolVars, hdb, huser, hkind, hdone, etodo, ebatches, sqsVars, pollerOutside>>

\* batching poller: SendMessageBatch with one entry per chunk
PollerBatch(Failed, f) ==
  /\ hpc = "batch"
  /\ LET entries == messageChunks(etodo) IN
       IF f \/ entries = {}
         THEN Failed = {} /\ hret' = "SQS error" /\ UNCHANGED ebatches
         ELSE /\ Failed \subseteq entries
              /\ ebatches' = ebatches \cup (entries \ Failed)
              /\ hret' = "ok"
  /\ etodo' = {}
  /\ hpc' = "cleanup"
  /\ UNCHANGED <<poolVars, hdb, huser, hkind, hdone, sqsVars, pollerOutside>>

\* the finally of the poller
PollerCleanup ==
  /\ hkind \in {"scheduled", "http"}
  /\ HandlerCleanup

InitPoller ==
  /\ senderImpl = "capped"
  /\ dailyImpl = "tracked"
  /\ isLocal = FALSE
  /\ schedulerImpl = "utc"
  /\ pollerImpl \in {"single", "batch"}
  /\ users \in [Users -> {"today", "other"}]
  /\ InitState

NextPoller ==
  \/ \E kind \in {"scheduled", "http"} : PollerInvoke(kind)
  \/ \E f \in BOOLEAN : PollerQuery(f)
  \/ \E u \in Users, n \in Msgs, f \in BOOLEAN : PollerSend(u, n, f)
  \/ PollerLoopEnd
  \/ \E Failed \in SUBSET SUBSET Users, f \in BOOLEAN : PollerBatch(Failed, f)
  \/ PollerCleanup

SpecPoller == InitPoller /\ [][NextPoller]_vars

\* ---- the aggregator run again ---------------------------------------------------
\* The tracked aggregator invoked again on the same UTC day, one run at a
\* time, on a table in which a user of the day may have a record in any status
\* (left by an earlier run and the sender) and, with it, a trigger.
InitRerun ==
  /\ senderImpl = "capped"
  /\ dailyImpl = "tracked"
  /\ isLocal = FALSE
  /\ schedulerImpl = "utc"
  /\ pollerImpl = "single"
  /\ users \in [Users -> {"today", "other"}]
  /\ fired = {}
  /\ logs \in [Users -> {NoLog, [status |-> "PENDING", attempts |-> 0],
                         [status |-> "SENT", attempts |-> 1],
                         [status |-> "FAILED", attempts |-> 1]}]
  /\ \A u \in Users : users[u] = "other" => logs[u] = NoLog
  /\ schedules \in SUBSET {u \in Users : logs[u] # NoLog}
  /\ InitClock
  /\ crons = [u \in Users |->
               IF u \in schedules
                 THEN cronExpression(schedulerImpl, isLocal, zone[u], today)
                 ELSE NoCron]
  /\ applied = [u \in Users |-> logs[u].attempts]
  /\ spc = [p \in Senders |-> "idle"]
  /\ suser = [p \in Senders |-> 1]
  /\ sweb = [p \in Senders |-> "none"]
  /\ sret = [p \in Senders |-> "none"]
  /\ calls = [u \in Users |-> logs[u].attempts]
  /\ okCalls = [u \in Users |-> IF logs[u].status = "SENT" THEN 1 ELSE 0]
  /\ invocations = 0
  /\ dpc = [r \in Runs |-> "idle"]
  /\ dtodo = [r \in Runs |-> {}]
  /\ duser = [r \in Runs |-> 1]
  /\ dret = [r \in Runs |-> "none"]
  /\ dseen = [r \in Runs |-> {}]
  /\ dclean = [r \in Runs |-> "none"]
  /\ derr = [r \in Runs |-> "none"]
  /\ apc = "idle"
  /\ amethod = "none"
  /\ auser = 1
  /\ achanged = FALSE
  /\ aret = 0
  /\ InitPolling /\ InitQueue /\ InitPast /\ InitCycle /\ InitProcess /\ InitChunk

\* an invocation that starts when the one before it has ended
DailyRerun(r, f) ==
  /\ \A q \in Runs : dpc[q] = "idle"
  /\ DailyInvoke(r, f)

NextRerun ==
  \/ \E r \in Runs, f \in BOOLEAN : DailyRerun(r, f)
  \/ \E r \in Runs : TrackedSteps(r)

SpecRerun == InitRerun /\ [][NextRerun]_vars

\* ---- overlapping polls --------------------------------------------------------
\* The polling handler invoked more than once while the users are in their
\* window (the scheduled event delivered twice, or the HTTP route used beside
\* it).
InitPoll ==
  /\ senderImpl = "capped"
  /\ dailyImpl = "tracked"
  /\ isLocal = FALSE
  /\ schedulerImpl = "utc"
  /\ pollerImpl = "single"
  /\ users \in [Users -> {"today", "other"}]
  /\ InitState

NextPoll ==
  \/ \E r \in Runs, f \in BOOLEAN : PollStart(r, f)
  \/ \E r \in Runs, u \in Users, resp \in Responses : PollSend(r, u, resp)
  \/ \E r \in Runs, f \in BOOLEAN : PollMark(r, f)
  \/ \E r \in Runs : PollEnd(r)

SpecPoll == InitPoll /\ [][NextPoll]_vars

\* ---- the due-now query over time -----------------------------------------------
\* One invocation of the polling handler at an instant of the two middle days,
\* for users with a birthday on one of them.
InitDue ==
  /\ senderImpl = "capped"
  /\ dailyImpl = "tracked"
  /\ isLocal = FALSE
  /\ schedulerImpl = "utc"
  /\ pollerImpl = "single"
  /\ now \in Instants
  /\ zone \in [Users -> Zones \ {"Pacific/Auckland"}]
  /\ bday \in [Users -> {Calendar[2], Calendar[3]}]
  /\ users = usersAt(now)
  /\ InitScheduler /\ InitPolling /\ InitQueue /\ InitPast /\ InitCycle /\ InitProcess /\ InitChunk

NextDue ==
  \/ \E f \in BOOLEAN : PollStart(1, f)
  \/ \E u \in Users, resp \in Responses : PollSend(1, u, resp)
  \/ \E f \in BOOLEAN : PollMark(1, f)
  \/ PollEnd(1)

SpecDue == InitDue /\ [][NextDue]_vars

\* ---- polls of one window ------------------------------------------------------
\* The polling handler invoked at a poll instant of the two middle days and
\* once more some minutes later (the HTTP route used after the scheduled run),
\* for users in any zone with a birthday on one of the two days.
InitDedup ==
  /\ senderImpl = "capped"
  /\ dailyImpl = "tracked"
  /\ isLocal = FALSE
  /\ schedulerImpl = "utc"
  /\ pollerImpl = "single"
  /\ now \in PollInstants
  /\ zone \in [Users -> Zones]
  /\ bday \in [Users -> {Calendar[2], Calendar[3]}]
  /\ users = usersAt(now)
  /\ InitScheduler /\ InitPolling /\ InitQueue /\ InitPast /\ InitCycle /\ InitProcess /\ InitChunk

\* the scheduled invocation
PollScheduled(f) == PollStart(1, f)

\* d minutes pass after the scheduled invocation has ended; the rows are then
\* what the due-now query sees at the new instant
PollLater(d) ==
  /\ pret[1] # "none" /\ pret[2] = "none" /\ ppc[2] = "idle"
  /\ now \in PollInstants
  /\ now' = now + d
  /\ users' = usersAt(now + d)
  /\ UNCHANGED <<envVars, schedules, crons, fired, storeVars, senderVars, dailyVars,
                 apiVars, pollVars, zone, bday, queueVars, pastVars, cycleVars,
                 processVars, chunkVars>>

\* the invocation over HTTP
PollHttp(f) == pret[1] # "none" /\ PollStart(2, f)

NextDedup ==
  \/ \E f \in BOOLEAN : PollScheduled(f)
  \/ \E d \in {5, 10} : PollLater(d)
  \/ \E f \in BOOLEAN : PollHttp(f)
  \/ \E r \in Runs, u \in Users, resp \in Responses : PollSend(r, u, resp)
  \/ \E r \in Runs, f \in BOOLEAN : PollMark(r, f)
  \/ \E r \in Runs : PollEnd(r)

SpecDedup == InitDedup /\ [][NextDedup]_vars

\* ---- trigger expressions -----------------------------------------------------
\* The daily aggregator run at midnight UTC of either middle day of Calendar,
\* with every user's birthday on that day, under either SchedulerService.
InitCron ==
  /\ senderImpl = "capped"
  /\ dailyImpl = "simple"
  /\ isLocal \in BOOLEAN
  /\ schedulerImpl \in {"utc", "naive"}
  /\ pollerImpl = "single"
  /\ now \in {24 * 60, 2 * 24 * 60}
  /\ zone \in [Users -> Zones]
  /\ bday = [u \in Users |-> Calendar[today]]
  /\ users = [u \in Users |-> "today"]
  /\ InitScheduler /\ InitPolling /\ InitQueue /\ InitPast /\ InitCycle /\ InitProcess /\ InitChunk

NextCron ==
  \/ \E f \in BOOLEAN : DailyInvoke(1, f)
  \/ \E u \in Users, f \in BOOLEAN : DailyScheduleOnly(1, u, f)
  \/ DailyEnd(1)

SpecCron == InitCron /\ [][NextCron]_vars

\* ---- queue variant ------------------------------------------------------------
\* One message per user is in the main queue, as the birthday checker left
\* them; the consumer, SQS and the hourly retry handler run.
InitQueued ==
  /\ senderImpl = "capped"
  /\ dailyImpl = "tracked"
  /\ isLocal = FALSE
  /\ schedulerImpl = "utc"
  /\ pollerImpl = "single"
  /\ users = [u \in Users |-> "today"]
  /\ InitScheduler /\ InitPolling /\ InitClock /\ InitPast /\ InitCycle /\ InitProcess /\ InitChunk
  /\ qwhere = [m \in Msgs |-> IF m \in Users THEN "main" ELSE "none"]
  /\ quser = [m \in Msgs |-> IF m \in Users THEN m ELSE 1]
  /\ qrc = [m \in Msgs |-> 0]
  /\ qvis = [m \in Msgs |-> m \in Users]
  /\ qfrom = [m \in Msgs |-> 0]
  /\ qretry = [m \in Msgs |-> 0]
  /\ cpc = "idle" /\ cmsg = 1 /\ cret = "none"
  /\ rpc = "idle" /\ rbatch = {} /\ rmsg = 1 /\ rret = "none"
  /\ epc = "idle" /\ etodo = {} /\ eret = "none" /\ ebatches = {}

NextQueue ==
  \/ \E m \in Msgs : ConsumerReceive(m)
  \/ \E m \in Msgs : SqsRedrive(m)
  \/ \E f \in BOOLEAN : ConsumerCheck(f)
  \/ \E resp \in Responses : ConsumerSend(resp)
  \/ \E f \in BOOLEAN : ConsumerUpdate(f)
  \/ \E f \in BOOLEAN : RetryStart(f)
  \/ \E B \in SUBSET Msgs, first \in Msgs, f \in BOOLEAN : RetryReceive(B, first, f)
  \/ \E n \in Msgs, f \in BOOLEAN : RetrySend(n, f)
  \/ \E f \in BOOLEAN : RetryDelete(f)
  \/ \E m \in Msgs : VisibilityExpire(m)

SpecQueue == InitQueued /\ [][NextQueue]_vars

\* ---- redrive of dead letters ----------------------------------------------------
\* Every user's message has failed maxReceiveCount times and is in the
\* dead-letter queue; the hourly retry handler, SQS and the consumer of the
\* main queue run.
InitRedrive ==
  /\ senderImpl = "capped"
  /\ dailyImpl = "tracked"
  /\ isLocal = FALSE
  /\ schedulerImpl = "utc"
  /\ pollerImpl = "single"
  /\ users = [u \in Users |-> "today"]
  /\ InitScheduler /\ InitPolling /\ InitClock /\ InitPast /\ InitCycle /\ InitProcess /\ InitChunk
  /\ qwhere = [m \in Msgs |-> IF m \in Users THEN "dlq" ELSE "none"]
  /\ quser = [m \in Msgs |-> IF m \in Users THEN m ELSE 1]
  /\ qrc = [m \in Msgs |-> IF m \in Users THEN maxReceiveCount ELSE 0]
  /\ qvis = [m \in Msgs |-> m \in Users]
  /\ qfrom = [m \in Msgs |-> 0]
  /\ qretry = [m \in Msgs |-> 0]
  /\ cpc = "idle" /\ cmsg = 1 /\ cret = "none"
  /\ rpc = "idle" /\ rbatch = {} /\ rmsg = 1 /\ rret = "none"
  /\ epc = "idle" /\ etodo = {} /\ eret = "none" /\ ebatches = {}

SpecRedrive == InitRedrive /\ [][NextQueue]_vars

\* ---- the retry cycle of the webhook handler ------------------------------------
\* Every user's message is in the dead-letter queue, and a copy of the first
\* one is in the main queue (left by a redrive whose delete failed).  One
\* scheduled invocation of the webhook handler runs retryFailedWebhooks.  In
\* SpecFailed the visibility timeout of a received dead-letter message runs out
\* at any time; in SpecOverlap SQS-triggered invocations of the handler consume
\* the main queue meanwhile.
InitFailed ==
  /\ senderImpl = "capped"
  /\ dailyImpl = "tracked"
  /\ isLocal = FALSE
  /\ schedulerImpl = "utc"
  /\ pollerImpl = "single"
  /\ users = [u \in Users |-> "today"]
  /\ InitScheduler /\ InitPolling /\ InitClock /\ InitPast /\ InitCycle /\ InitProcess /\ InitChunk
  /\ qwhere = [m \in Msgs |-> IF m \in Users THEN "dlq"
                               ELSE IF m = NumUsers + 1 THEN "main" ELSE "none"]
  /\ quser = [m \in Msgs |-> IF m \in Users THEN m ELSE 1]
  /\ qrc = [m \in Msgs |-> IF m \in Users THEN maxReceiveCount ELSE 0]
  /\ qvis = [m \in Msgs |-> m <= NumUsers + 1]
  /\ qfrom = [m \in Msgs |-> IF m = NumUsers + 1 THEN 1 ELSE 0]
  /\ qretry = [m \in Msgs |-> 0]
  /\ cpc = "idle" /\ cmsg = 1 /\ cret = "none"
  /\ rpc = "idle" /\ rbatch = {} /\ rmsg = 1 /\ rret = "none"
  /\ epc = "idle" /\ etodo = {} /\ eret = "none" /\ ebatches = {}

\* the scheduled invocation
CycleInvoke(f) == wret = "none" /\ CycleStart(f)

\* the visibility timeout of a message received by the cycle runs out
VisibilityTimeout(m) == wtried[m] < MaxPasses /\ VisibilityExpire(m)

NextFailed ==
  \/ \E f \in BOOLEAN : CycleInvoke(f)
  \/ \E B \in SUBSET Msgs, f \in BOOLEAN : CycleReceive(B, f)
  \/ \E m \in Msgs, f \in BOOLEAN : CycleCheck(m, f)
  \/ CycleLoopEnd
  \/ \E resp \in Responses : CycleSend(resp)
  \/ \E f \in BOOLEAN : CycleUpdate(f)
  \/ \E f \in BOOLEAN : CycleDelete(f)
  \/ \E m \in Msgs : VisibilityTimeout(m)

SpecFailed == InitFailed /\ [][NextFailed]_vars

NextOverlap ==
  \/ \E f \in BOOLEAN : CycleInvoke(f)
  \/ \E B \in SUBSET Msgs, f \in BOOLEAN : CycleReceive(B, f)
  \/ \E m \in Msgs, f \in BOOLEAN : CycleCheck(m, f)
  \/ CycleLoopEnd
  \/ \E resp \in Responses : CycleSend(resp)
  \/ \E f \in BOOLEAN : CycleUpdate(f)
  \/ \E f \in BOOLEAN : CycleDelete(f)
  \/ \E m \in Msgs : ConsumerReceive(m)
  \/ \E m \in Msgs : SqsRedrive(m)
  \/ \E f \in BOOLEAN : ConsumerCheck(f)
  \/ \E resp \in Responses : ConsumerSend(resp)
  \/ \E f \in BOOLEAN : ConsumerUpdate(f)

SpecOverlap == InitFailed /\ [][NextOverlap]_vars

\* ---- enqueueing ---------------------------------------------------------------
\* One scheduled invocation of either queueing poller on empty queues, and the
\* consumer of the main queue.
InitEnqueue ==
  /\ senderImpl = "capped"
  /\ dailyImpl = "tracked"
  /\ isLocal = FALSE
  /\ schedulerImpl = "utc"
  /\ pollerImpl \in {"single", "batch"}
  /\ users \in [Users -> {"today", "other"}]
  /\ InitState

EnqueueInvoke(f) == eret = "none" /\ EnqueueStart(f)

NextEnqueue ==
  \/ \E f \in BOOLEAN : EnqueueInvoke(f)
  \/ \E Failed \in SUBSET SUBSET Users, f \in BOOLEAN : EnqueueBatch(Failed, f)
  \/ \E u \in Users, n \in Msgs, f \in BOOLEAN : EnqueueSend(u, n, f)
  \/ EnqueueEnd
  \/ \E m \in Msgs : ConsumerReceive(m)
  \/ \E m \in Msgs : SqsRedrive(m)
  \/ \E f \in BOOLEAN : ConsumerCheck(f)
  \/ \E resp \in Responses : ConsumerSend(resp)
  \/ \E f \in BOOLEAN : ConsumerUpdate(f)

SpecEnqueue == InitEnqueue /\ [][NextEnqueue]_vars

\* ---- local deployment ---------------------------------------------------------
\* IS_OFFLINE / STAGE=local: the aggregator's triggers are rate(1 minute), so a
\* registered trigger invokes the sender again every minute, also on the next
\* UTC day.  The invocations of a trigger are a minute apart and are taken one
\* at a time.
InitLocal ==
  /\ senderImpl \in {"capped", "uncapped"}
  /\ dailyImpl = "tracked"
  /\ isLocal = TRUE
  /\ schedulerImpl = "utc"
  /\ pollerImpl = "single"
  /\ users \in [Users -> {"today", "other"}]
  /\ InitState

\* the next firing of a recurring trigger, after the previous invocation ended
RateFire(p, u) ==
  /\ \A q \in Senders : spc[q] = "idle"
  /\ TriggerFire(p, u)

\* The UTC date changes while no handler runs: DateTime.utc().toFormat(
\* 'yyyy-MM-dd') gives the next day, so messageId {userId}_{today} names a
\* record that does not exist yet; the records written so far stay in the
\* table under the keys of the day before.  The triggers stay registered.
Midnight ==
  /\ now < 24 * 60
  /\ \A q \in Senders : spc[q] = "idle"
  /\ dpc[1] = "idle"
  /\ now' = now + 24 * 60
  /\ oldLogs' = logs
  /\ logs' = [u \in Users |-> NoLog]
  /\ applied' = [u \in Users |-> 0]
  /\ UNCHANGED <<envVars, users, schedules, crons, fired, senderVars, dailyVars, apiVars,
                 pollVars, zone, bday, queueVars, cycleVars, processVars, chunkVars>>

NextLocal ==
  \/ \E f \in BOOLEAN : DailyRun(f)
  \/ TrackedSteps(1)
  \/ \E p \in Senders, u \in Users : RateFire(p, u)
  \/ \E p \in Senders : SenderSteps(p)
  \/ Midnight

SpecLocal == InitLocal /\ [][NextLocal]_vars

\* ---- concurrent retries -------------------------------------------------------
\* The capped sender invoked concurrently for user 1 after earlier invocations
\* for the key have ended, each with a webhook call that failed and was
\* recorded: the record is absent, or FAILED with one or two attempts.
InitRetries ==
  /\ senderImpl = "capped"
  /\ dailyImpl = "tracked"
  /\ isLocal = FALSE
  /\ schedulerImpl = "utc"
  /\ pollerImpl = "single"
  /\ users \in [Users -> {"today", "other"}]
  /\ fired = {}
  /\ schedules = {}
  /\ crons = [u \in Users |-> NoCron]
  /\ \E k \in 0..(MAX_ATTEMPTS - 1) :
       /\ logs = [u \in Users |->
                   IF u = 1 /\ k > 0 THEN [status |-> "FAILED", attempts |-> k]
                   ELSE NoLog]
       /\ applied = [u \in Users |-> IF u = 1 THEN k ELSE 0]
       /\ calls = [u \in Users |-> IF u = 1 THEN k ELSE 0]
  /\ okCalls = [u \in Users |-> 0]
  /\ spc = [p \in Senders |-> "idle"]
  /\ suser = [p \in Senders |-> 1]
  /\ sweb = [p \in Senders |-> "none"]
  /\ sret = [p \in Senders |-> "none"]
  /\ invocations = 0
  /\ dpc = [r \in Runs |-> "idle"]
  /\ dtodo = [r \in Runs |-> {}]
  /\ duser = [r \in Runs |-> 1]
  /\ dret = [r \in Runs |-> "none"]
  /\ dseen = [r \in Runs |-> {}]
  /\ dclean = [r \in Runs |-> "none"]
  /\ derr = [r \in Runs |-> "none"]
  /\ apc = "idle"
  /\ amethod = "none"
  /\ auser = 1
  /\ achanged = FALSE
  /\ aret = 0
  /\ InitPolling /\ InitClock /\ InitQueue /\ InitPast /\ InitCycle /\ InitProcess /\ InitChunk

NextRetries ==
  \/ \E p \in Senders : SenderInvoke(p, 1)
  \/ \E p \in Senders : SenderSteps(p)

SpecRetries == InitRetries /\ [][NextRetries]_vars

\* ---- properties ---------------------------------------------------------------
\* C1: no double-send: for every key at most one webhook call is answered 2xx,
\* however many sender invocations run concurrently for it.
C1_NoDoubleSend == \A u \in Users : okCalls[u] <= 1

\* C2: max-attempts termination: against an endpoint that always fails,
\* sequential invocations never raise attempts above MAX_ATTEMPTS, a record
\* with MAX_ATTEMPTS attempts is FAILED, and an invocation that reads such a
\* record returns the terminal error without a webhook call or a record change.
C2_MaxAttemptsTermination ==
  /\ [](\A u \in Users : /\ logs[u].attempts <= MAX_ATTEMPTS
                         /\ logs[u].attempts = MAX_ATTEMPTS => logs[u].status = "FAILED")
  /\ [][\A p \in Senders :
          (/\ spc[p] = "get" /\ spc'[p] # "get"
           /\ logs[suser[p]].attempts >= MAX_ATTEMPTS
           /\ sret'[p] # "500_store_error")
          => (/\ spc'[p] = "idle" /\ sret'[p] = "500_max_attempts"
              /\ logs' = logs /\ applied' = applied /\ calls' = calls)]_vars

C2_Witness ==
  \E p \in Senders :
    /\ sret[p] = "500_max_attempts"
    /\ logs[suser[p]] = [status |-> "FAILED", attempts |-> MAX_ATTEMPTS]
    /\ calls[suser[p]] = MAX_ATTEMPTS

\* C3: SENT only after Ok: a sender invocation records SENT only when its own
\* webhook call was answered 2xx.
C3_SentOnlyAfterOk ==
  [][\A p \in Senders :
       (spc[p] = "updSent" /\ sret'[p] = "200_sent") => sweb[p] = "ok"]_vars

\* C4: idempotent creation: a createMessageLog for a key that has a record
\* fails and leaves every record as it was, whatever state the record is in.
C4_IdempotentCreate ==
  [][/\ \A p \in Senders :
          (spc[p] = "create" /\ spc'[p] # "create" /\ logs[suser[p]] # NoLog)
          => (/\ logs' = logs
              /\ sret'[p] \in {"500_already_exists", "500_store_error"})
     /\ \A r \in Runs :
          (dpc[r] = "create" /\ dpc'[r] # "create" /\ logs[duser[r]] # NoLog)
          => (logs' = logs /\ dpc'[r] = "cleanup")]_vars

C4_Witness ==
  \E p \in Senders :
    /\ sret[p] = "500_already_exists"
    /\ logs[suser[p]].status \in {"SENT", "FAILED"}

C6_SentShortCircuit ==
  [][\A p \in Senders :
       (/\ spc[p] = "get" /\ spc'[p] # "get"
        /\ logs[suser[p]].status = "SENT"
        /\ sret'[p] # "500_store_error")
       => (/\ spc'[p] = "idle" /\ sret'[p] = "200_already_sent"
           /\ logs' = logs /\ applied' = applied /\ calls' = calls)]_vars

C6_Witness ==
  \E p \in Senders :
    /\ sret[p] = "200_already_sent"
    /\ logs[suser[p]].status = "SENT"
    /\ calls[suser[p]] = 1

C8_RetryAfterFailure ==
  \A u \in Users :
    ~(/\ Quiescent
      /\ logs[u] = [status |-> "FAILED", attempts |-> 1]
      /\ calls[u] = 1)

\* C9: no PENDING record without a trigger: a user the daily aggregator has
\* finished processing never has a PENDING record while no trigger for the
\* user is registered.
C9_NoPendingWithoutTrigger ==
  \A r \in Runs : \A u \in dseen[r] :
    ~(logs[u].status = "PENDING" /\ u \notin schedules)

\* C10: cancel on delete/update: when a DELETE returns 204, or a PUT that
\* changed the birthday returns 200, no trigger for the user is registered.
C10_CancelOnDeleteOrUpdate ==
  [][(/\ apc # "idle" /\ apc' = "idle"
      /\ (aret' = 204 \/ (aret' = 200 /\ achanged)))
     => auser \notin schedules']_vars

\* C12: conflict is a no-op: an aggregator run whose createMessageLog was
\* refused because the record exists leaves the iteration without changing
\* any record and without registering a trigger.
C12_ConflictIsNoOp ==
  [][\A r \in Runs :
       (dpc[r] = "cleanup" /\ derr[r] = "already exists" /\ dpc'[r] # "cleanup")
       => (logs' = logs /\ schedules' = schedules)]_vars

\* C20: attempts counts delivery attempts only: once no sender invocation is
\* in progress for a key, attempts of its record equals the number of webhook
\* calls made for the key.
C20_AttemptsCountDeliveries ==
  \A u \in Users :
    (\A p \in Senders : spc[p] = "idle" \/ suser[p] # u)
    => logs[u].attempts = calls[u]

\* C11: concurrent invocations are tolerated: however the polls overlap, at
\* most one webhook call is made for a user for the birthday.
C11_OneCallPerBirthday == \A u \in Users : calls[u] <= 1

\* 09:00 of user u on Calendar day i, as a UTC instant
nineLocal(u, i) == (i - 1) * 24 * 60 + 9 * 60 - UtcOffset(zone[u])

\* the instant t is within the quarter hour from 09:00 of u's birthday
inOwnWindow(u, t) ==
  \E i \in 1..Len(Calendar) :
    /\ Calendar[i].month = bday[u].month /\ Calendar[i].day = bday[u].day
    /\ nineLocal(u, i) <= t /\ t < nineLocal(u, i) + 15

\* C17: timezone correctness of the due-now query: a user is in the query
\* result only at an instant within [09:00, 09:15) of the user's own zone on
\* the birthday.
C17_DueInOwnZone ==
  \A r \in Runs : \A u \in ptodo[r] : inOwnWindow(u, now)

\* two users with the same birthday in different zones, one selected
C17_Witness ==
  \E u, v \in Users :
    /\ ppc[1] = "loop" /\ u \in ptodo[1] /\ v \notin ptodo[1] /\ puser[1] # v
    /\ bday[u] = bday[v] /\ zone[u] # zone[v]
    /\ fieldsOf(now).date # atTimeZone(now, zone[v]).date

\* for each zone and birthday, whether the time conditions of the due-now
\* query hold at some instant at which birthdayChecker is invoked
dueAtSomePoll ==
  [z \in Zones, b \in {Calendar[2], Calendar[3]} |->
     \E t \in PollInstants : dueNow(b, z, t)]

\* C18: no user is missed by polling: for every user some scheduled poll
\* instant is one at which the due-now query returns the user.
C18_NoUserMissed ==
  \A u \in Users : dueAtSomePoll[zone[u], bday[u]]

\* a scheduled poll has returned a user of a zone off the hour
C18_Witness ==
  /\ now \in PollInstants
  /\ ppc[1] = "mark"
  /\ zone[puser[1]] = "Asia/Kathmandu"
  /\ inOwnWindow(puser[1], now)

\* the instant a cron expression names when its fields are read in UTC
instantOfCron(c) ==
  LET i == CHOOSE j \in 1..Len(Calendar) :
             /\ Calendar[j].year = c.year
             /\ Calendar[j].month = c.month
             /\ Calendar[j].day = c.day
  IN (i - 1) * 24 * 60 + c.hour * 60 + c.minute

\* C19: the cron expression scheduleMessage registers, read in UTC, names the
\* instant of 09:00 on the given date in the user's zone, in every zone, also
\* where the conversion changes the UTC calendar day.
C19_CronIsNineLocalInUtc ==
  \A u \in Users :
    crons[u].kind = "cron" => instantOfCron(crons[u]) = nineLocal(u, today)

\* C13: a dead-letter message that has been resubmitted to the main queue is
\* absent from the dead-letter queue once the cycle that resubmitted it is
\* over, so no later cycle receives it, also when the delete call fails.
C13_RedrivenLeavesDlq ==
  \A m \in Msgs :
    ((\E n \in Msgs : qfrom[n] = m) /\ ~(rpc = "delete" /\ rmsg = m))
      => qwhere[m] # "dlq"

\* C14: a queued message whose webhook call always fails is attempted at most
\* 3 times in all, main-queue deliveries and retry cycles together.
C14_HardCap ==
  \A u \in Users : okCalls[u] = 0 => calls[u] <= maxReceiveCount

\* C15: when a retry cycle ends, every message its receive call returned has
\* been handled by it: none was received and then ignored.
C15_BatchHandled ==
  [][((rpc = "send" \/ rpc = "delete") /\ rpc' = "idle")
       => rbatch \subseteq {rmsg}]_vars

\* C16: when the webhook call or the tracker update fails for a record, the
\* consumer completes without throwing and the record is in the dead-letter
\* queue.
C16_FailureToDlq ==
  [][(/\ cpc' = "idle"
      /\ \/ cpc = "send"
         \/ cpc = "update" /\ lastGreetingSentAt' = lastGreetingSentAt)
       => (cret' = "ok" /\ qwhere'[cmsg] = "dlq")]_vars

\* C21: CANCELLED on invalidation: when a PUT or DELETE completes with 200 or
\* 204 while the user's record for today is PENDING, the record is CANCELLED
\* when the request completes.
C21_CancelledOnInvalidation ==
  [][(/\ apc # "idle" /\ apc' = "idle"
      /\ amethod \in {"PUT", "DELETE"}
      /\ aret' \in {200, 204}
      /\ logs[auser].status = "PENDING")
     => logs'[auser].status = "CANCELLED"]_vars

\* C22: record on birthday creation: when a POST for a user whose birthday is
\* today completes with 201, a PENDING record with attempts 0 exists for the
\* user's key of today.
C22_RecordOnBirthdayCreation ==
  [][(apc = "schedule" /\ apc' = "idle" /\ aret' = 201)
     => logs'[auser] = [status |-> "PENDING", attempts |-> 0]]_vars

RECURSIVE redrives(_)
redrives(m) == IF qfrom[m] = 0 THEN 0 ELSE 1 + redrives(qfrom[m])

\* C24: the retryCount a queued message carries equals the number of times it
\* has been taken from the dead-letter queue for retry.
C24_RetryCountTracksRedrives ==
  \A m \in Msgs : qwhere[m] \in {"main", "dlq"} => qretry[m] = redrives(m)

\* C26: per-user failure isolation: a daily aggregator run, a poll or an
\* enqueueing loop ends only when no user is left to process, or with the one user whose processing
\* failed in that step; a failure for one user never leaves other users
\* unprocessed.
C26_FailureIsolation ==
  [][/\ \A r \in Runs :
          (dpc[r] = "loop" /\ dpc'[r] = "idle") => Cardinality(dtodo[r]) <= 1
     /\ \A r \in Runs :
          (ppc[r] = "loop" /\ ppc'[r] = "idle") => Cardinality(ptodo[r]) <= 1
     /\ (epc = "loop" /\ epc' = "idle") => Cardinality(etodo) <= 1]_vars

\* the users with a record in a message the main queue holds
enqueued ==
  {quser[m] : m \in {k \in Msgs : qwhere[k] = "main"}} \cup UNION ebatches

\* C25: partial enqueue failures are not dropped: when an invocation of the
\* poller completes normally, every user it found due is in a message the
\* queue accepted.
C25_NoSilentEnqueueLoss ==
  [][(epc # "idle" /\ epc' = "idle" /\ eret' = "ok" /\ pollerImpl = "batch")
       => etodo \subseteq enqueued']_vars

\* C27: local mode keeps the guarantees: a webhook call for a user is answered
\* 2xx only if none was answered 2xx for that user before and no record of the
\* user is SENT, under today's key or under the key of the day before.
C27_LocalOneDelivery ==
  [][\A u \in Users :
       okCalls'[u] > okCalls[u] =>
         /\ okCalls[u] = 0
         /\ logs[u].status # "SENT"
         /\ oldLogs[u].status # "SENT"]_vars

\* C28: SENT is terminal: a record whose status is SENT keeps its status and
\* its attempts in every later step.
C28_SentIsTerminal ==
  [][\A u \in Users : logs[u].status = "SENT" => logs'[u] = logs[u]]_vars

\* C29: attempt bound under concurrency: in every reachable state the
\* attempts of a record and the number of webhook calls made for its key are
\* at most MAX_ATTEMPTS.
C29_AttemptBound ==
  \A u \in Users : logs[u].attempts <= MAX_ATTEMPTS /\ calls[u] <= MAX_ATTEMPTS

\* C30: FAILED means the webhook failed: when a sender invocation's update to
\* FAILED is accepted, the webhook call of that invocation had returned an
\* error, never 2xx.
C30_FailedMeansWebhookFailed ==
  [][\A p \in Senders :
       (/\ spc[p] = "updFailed"
        /\ spc'[p] = "idle"
        /\ applied'[suser[p]] > applied[suser[p]]
        /\ logs'[suser[p]].status = "FAILED")
       => sweb[p] \in {"http_error", "net_error"}]_vars

\* C31: triggers are never registered in the past: the instant a registered
\* cron trigger names is later than the instant of the aggregator's run that
\* registered it, in every zone.
C31_TriggerInFuture ==
  \A u \in schedules :
    crons[u].kind = "cron" => instantOfCron(crons[u]) > now

\* the instants a and b are on the same civil day in zone z
sameLocalDay(a, b, z) == atTimeZone(a, z).date = atTimeZone(b, z).date

\* C32: polling dedup holds in every timezone: a user whose greeting was marked
\* as sent on the local day of the query is not in the result of the due-now
\* query.
C32_DedupInEveryZone ==
  [][\A r \in Runs :
       (ppc[r] = "idle" /\ ppc'[r] = "loop") =>
         \A u \in ptodo'[r] :
           ~(lastGreetingSentAt[u].sent
             /\ sameLocalDay(lastGreetingSentAt[u].at, now, zone[u]))]_vars

\* C33: no message is lost by redrive: a message leaves the dead-letter queue
\* only in the delete step of a retry cycle whose send to the main queue
\* succeeded, so a copy of it has been put in the main queue before; after a
\* failed send it is still in the dead-letter queue.
C33_NoLossByRedrive ==
  [][\A m \in Msgs :
       (qwhere[m] = "dlq" /\ qwhere'[m] # "dlq") =>
         /\ qwhere'[m] = "gone"
         /\ rpc = "delete" /\ rmsg = m
         /\ \E n \in Msgs : qfrom[n] = m /\ qwhere[n] # "none"]_vars

\* a cycle has deleted a dead-letter message whose copy it had sent, and a
\* cycle whose send failed has left its message in the dead-letter queue
C33_Witness ==
  /\ \E m, n \in Msgs : qwhere[m] = "gone" /\ qfrom[n] = m /\ qwhere[n] = "main"
  /\ \E m \in Msgs : qwhere[m] = "dlq" /\ ~qvis[m] /\ rpc = "idle" /\ rret = "ok"

\* C36: already-greeted is not an error for the consumer: an invocation whose
\* webhook call succeeded does not end by throwing 'User not found or greeting
\* already sent this year'; it completes normally.
C36_AlreadyGreetedIsNoError ==
  [][(cpc = "update" /\ cpc' = "idle")
       => cret' # "User not found or greeting already sent this year"]_vars

\* C34: the dead-letter retry cycle terminates: no dead-letter message is
\* attempted more than once in a cycle, so the receive loop runs out of
\* messages after finitely many iterations.
C34_OncePerCycle == \A m \in Msgs : wtried[m] <= 1

\* C35: re-running the daily aggregator is idempotent: a run goes on to
\* createMessageLog only for a user that has no record for today, and every
\* change of a record or of the registered triggers is made by a run for the
\* user it took that way; a user that has a record is left as it is.
C35_RerunIsIdempotent ==
  [][/\ \A r \in Runs :
          (dpc[r] # "create" /\ dpc'[r] = "create") => logs[duser'[r]] = NoLog
     /\ \A u \in Users :
          (logs'[u] # logs[u] \/ (u \in schedules') # (u \in schedules))
            => \E r \in Runs :
                 dpc[r] \in {"create", "schedule", "cleanup"} /\ duser[r] = u]_vars

\* a second run has ended normally on a day on which a user has a delivered or
\* failed record
C35_Witness ==
  /\ \A r \in Runs : dpc[r] = "idle" /\ dret[r] = "ok"
  /\ \E u \in Users : users[u] = "today" /\ logs[u].status = "SENT"
  /\ \E u \in Users : users[u] = "today" /\ logs[u].status = "FAILED"

\* C37: cleanup() ends a pool at most once, a handler that has called
\* getInstance() holds an object whose pool has not been ended, and no query is
\* issued on an ended pool, across the consecutive invocations of one process.
C37_SingletonLifecycle ==
  /\ \A i \in Instances : poolEnds[i] <= 1
  /\ hpc = "check" => poolEnds[hdb] = 0
  /\ lateQueries = 0

\* C38: nothing due, nothing sent: the batching poller does not reach its
\* SendMessageBatch call when the due-now query returned no users.
C38_NothingDueNothingSent ==
  (pollerImpl = "batch" /\ epc = "batch") => etodo # {}

\* C39: store failure in the poller: when the due-now query fails, an HTTP
\* invocation ends with status 500 and a scheduled one rejects with the error of
\* the query; the invocation enqueues no message and calls cleanup.
C39_StoreFailureInPoller ==
  [][/\ (hpc = "query" /\ hpc' = "cleanup")
          => /\ hret' = (IF hkind = "http" THEN "500" ELSE "Database error")
             /\ UNCHANGED <<sqsVars, ebatches>>
     /\ (hkind \in {"scheduled", "http"} /\ hret \in {"500", "Database error"}
           /\ hpc = "cleanup" /\ hpc' = "idle")
          => /\ hret' = hret
             /\ poolEnds'[hdb] = poolEnds[hdb] + 1
             /\ UNCHANGED <<sqsVars, ebatches>>]_vars

\* the chunks one after the other
RECURSIVE concatenation(_)
concatenation(chunks) ==
  IF chunks = <<>> THEN <<>> ELSE Head(chunks) \o concatenation(Tail(chunks))

\* C40: chunkArray(array, size), size >= 1, returns consecutive slices whose
\* concatenation in order is the array: every chunk but the last has exactly
\* size elements, the last has 1..size, and an empty array gives no chunk.
C40_ChunksPartitionArray ==
  kdone =>
    /\ concatenation(kchunks) = karray
    /\ \A i \in 1..Len(kchunks) :
         /\ Len(kchunks[i]) >= 1
         /\ Len(kchunks[i]) <= ksize
         /\ i < Len(kchunks) => Len(kchunks[i]) = ksize
    /\ karray = <<>> => kchunks = <<>>

\* an array was split into full chunks and a shorter last one
C40_Witness ==
  /\ kdone
  /\ Len(kchunks) >= 2
  /\ Len(kchunks[Len(kchunks)]) < ksize

====
